---------------------------- MODULE ServiceProofs ----------------------------
(***************************************************************************)
(* The services around a run, for any values of the constants: the         *)
(* gateway's authorization journal, the rotation of the credential it      *)
(* leaves behind, and the people who sign in.                              *)
(*                                                                         *)
(* Rotation.  A session has one user (Owned) and only the session of the   *)
(* advisory lock can be given a transaction (Covered).  So while that      *)
(* session lives and the actor is not revoked, what an operation has       *)
(* loaded is still the connection (StillLoaded), and the row of its        *)
(* rotation is its own (Claimed).  The one admission a row has is in the   *)
(* hands of one operation, which spends the token and then has paid for    *)
(* what it stages (Admitted, Paid, StagePaid).                             *)
(*                                                                         *)
(* Journal.  What a living owner believes is what the database has, but    *)
(* for one commit it is waiting for (RowOk); that commit was earned when   *)
(* it was sent and holds the actor until it is settled (CommitOk,          *)
(* LocksOk).  A permit outlives its fence only with a call whose gate has  *)
(* closed (PermitOk), and what is left to be sent follows from where the   *)
(* owner is (SendsOk).                                                     *)
(*                                                                         *)
(* Sign-in.  The unique indexes of the tables (Listed) leave one person a  *)
(* sign-in can be for; a session is never younger than its person and      *)
(* nobody on the deny list has one; a callback alone holds the state it    *)
(* burnt (Burnt).  A generation grows in every step that touches it, so a  *)
(* session that was left behind stays behind.                              *)
(***************************************************************************)
EXTENDS GatewayRotation, GatewayJournal, SignIn, FiniteSetTheorems, TLAPS

\* Where an operation is past its begin and before its finalize.
Rotates == {"begun", "discovered", "admitted", "flight", "answered", "metadata",
            "identified", "staged", "checked"}
\* Where the token has been spent.
AfterToken == {"answered", "metadata", "identified", "staged", "checked"}
\* A transaction and where its operation goes when it is done.
Replies == {<<"begin", "begun">>, <<"admit", "admitted">>, <<"stage", "staged">>,
            <<"finalize", "finalized">>, <<"clear", "cleared">>}

CallAt(o)  == sess[op[o].s].call
AliveAt(o) == sess[op[o].s].alive
Waits(o, then) == op[o].pc = "wait" /\ op[o].then = then

-----------------------------------------------------------------------------
(* Sessions *)

\* A session that is dead has nothing left at the server.
DeadIsEmpty ==
    \A s \in Sessions : ~sess[s].alive => sess[s].locks = "none" /\ sess[s].call = NoCall

\* A session has one user; an operation that is not idle has one.
Owned ==
    /\ \A o \in Ops : (op[o].pc = "idle" <=> op[o].s = None) /\ (cat[o].pc = "idle" <=> cat[o].s = None)
    /\ en.s # None <=> en.pc \in {"flight1", "flight2", "insert"}
    /\ \A o, q \in Ops : o # q =>
         /\ op[o].s # None => op[o].s # op[q].s
         /\ cat[o].s # None => cat[o].s \notin {op[q].s, cat[q].s}
    /\ en.s # None => \A o \in Ops : en.s \notin {op[o].s, cat[o].s}

\* Only the session that holds the advisory lock has a transaction of an operation.
Covered ==
    /\ \A o \in Ops : op[o].pc \notin {"idle", "locking"} /\ AliveAt(o) => adv = op[o].s
    /\ \A s \in Sessions : sess[s].call.k \notin {None, "enroll"} => adv = s
    /\ \A o \in Ops : op[o].pc # "idle" => conn.st # "absent"

-----------------------------------------------------------------------------
(* The tables *)

\* The rows of the connection, its rotations and its secrets belong together.
Consistent ==
    /\ Len(rows) < MaxGen
    /\ conn.st = "absent" => conn.gen = 0 /\ rows = <<>>
                             /\ \A g \in Gens : secrets[g] = "absent"
    /\ conn.st # "absent" => conn.gen # 0
    /\ conn.st = "ready" => conn.pending = 0
    /\ conn.st = "rotation_pending" =>
         /\ conn.gen < MaxGen /\ Len(rows) <= conn.gen
         /\ conn.pending \in 1..Len(rows) /\ rows[conn.pending].from = conn.gen
         /\ \/ rows[conn.pending].st = "pending" /\ rows[conn.pending].candidate = 0
            \/ /\ rows[conn.pending].st = "staged"
               /\ rows[conn.pending].candidate = conn.gen + 1
               /\ secrets[conn.gen + 1] = "live"
    /\ conn.st \in {"ready", "missing", "auth_required"} => Len(rows) < conn.gen

\* Every generation is rotated from once.
FromOnce ==
    /\ \A i \in 1..Len(rows) :
         rows[i].from <= conn.gen /\ (conn.st # "rotation_pending" => rows[i].from < conn.gen)
    /\ \A i, j \in 1..Len(rows) : rows[i].from = rows[j].from => i = j

\* What has not been admitted has not been spent.
Unspent ==
    /\ \A g \in Gens : g > conn.gen => spends[g] = 0
    /\ \A i \in 1..Len(rows) : ~rows[i].admitted => spends[rows[i].from] = 0

TablesInv == Consistent /\ FromOnce /\ Unspent /\ CurrentIsLive /\ RefreshSpentOnce

-----------------------------------------------------------------------------
(* An operation *)

\* A call is the one its operation waits for.
Waiting(o) ==
    /\ op[o].pc = "wait" =>
         /\ op[o].then \in {"begun", "admitted", "staged", "finalized", "cleared"}
         /\ AliveAt(o) => <<CallAt(o).k, op[o].then>> \in Replies
                          /\ (op[o].then # "begun" => CallAt(o).id = op[o].id)
    /\ op[o].pc = "flight" => op[o].then \in {"discovered", "answered", "metadata", "identified"}
    /\ op[o].pc \notin {"idle", "wait", "failed"} => CallAt(o).k = None
    /\ op[o].pc = "committed" => op[o].loaded < MaxGen

Rotation(o, id) ==
    conn.st = "rotation_pending" /\ conn.pending = id /\ conn.gen = op[o].loaded
Advanced(o) == conn.st = "ready" /\ conn.gen = op[o].loaded + 1

\* While its session lives and the actor stays, an operation's connection is the one
\* it knows.
StillLoaded(o) ==
    op[o].pc # "idle" /\ AliveAt(o) /\ actor =>
        /\ op[o].pc = "ready" => conn.gen = op[o].loaded
        /\ op[o].pc \in Rotates => Rotation(o, op[o].id)
        /\ op[o].pc \in {"finalized", "committed"} => Advanced(o)
        /\ Waits(o, "begun") => conn.gen = op[o].loaded
                                /\ (CallAt(o).reply = "ok" => Rotation(o, CallAt(o).id))
        /\ Waits(o, "admitted") \/ Waits(o, "staged") => Rotation(o, op[o].id)
        /\ Waits(o, "finalized") =>
             /\ CallAt(o).reply = None => Rotation(o, op[o].id)
             /\ CallAt(o).reply = "ok" => Advanced(o)

\* The rotation an operation has begun: the row is its own.
Holds(o) ==
    \/ op[o].pc \in Rotates
    \/ Waits(o, "admitted") \/ Waits(o, "staged") \/ Waits(o, "finalized")
    \/ Waits(o, "begun") /\ CallAt(o).reply = "ok"
Held(o) == IF Waits(o, "begun") THEN CallAt(o).id ELSE op[o].id
Claimed(o) ==
    Holds(o) => /\ Held(o) \in 1..Len(rows) /\ rows[Held(o)].from = op[o].loaded
                /\ \A q \in Ops : Holds(q) /\ Held(q) = Held(o) => q = o

\* An admission that was received is unspent; what comes after it is paid for.
MayAdmit(o) == op[o].pc = "admitted" \/ (Waits(o, "admitted") /\ CallAt(o).reply = "ok")
Admitted(o) == MayAdmit(o) => rows[op[o].id].admitted /\ spends[op[o].loaded] = 0
HasPaid(o) ==
    \/ op[o].pc \in AfterToken
    \/ op[o].pc = "flight" /\ op[o].then \in AfterToken
    \/ Waits(o, "staged") \/ Waits(o, "finalized")
Paid(o) == HasPaid(o) => spends[op[o].loaded] = 1

OpInv(o) == Waiting(o) /\ StillLoaded(o) /\ Claimed(o) /\ Admitted(o) /\ Paid(o)

\* A transaction that is still to be served names a row, and one that stages is paid for.
CallsNameRows ==
    \A s \in Sessions :
        /\ sess[s].call.k \in {"admit", "stage", "finalize"} => sess[s].call.id \in 1..Len(rows)
        /\ sess[s].call.k = "stage" => spends[rows[sess[s].call.id].from] = 1

\* The fence of a request that is not overlapped by a rotation.
Fences(o) ==
    o \notin Overlap =>
        /\ cat[o].pc = "flight" => op[o].pc = "idle"
        /\ op[o].pc = "flight" /\ AliveAt(o) => sess[op[o].s].locks = "row" /\ actor
        /\ cat[o].pc = "flight" /\ sess[cat[o].s].alive =>
             /\ sess[cat[o].s].locks = "row" /\ sess[cat[o].s].call.k = None
             /\ actor /\ conn.st = "ready"

Receipt == en.pc = "receipt" => conn.st # "absent"

RotationInv ==
    /\ TypeOK /\ DeadIsEmpty /\ Owned /\ Covered /\ TablesInv /\ CallsNameRows
    /\ \A o \in Ops : OpInv(o)
    /\ \A o \in Ops : Fences(o)
    /\ Receipt

-----------------------------------------------------------------------------
(* The tables: each transaction keeps them consistent. *)

Rotations == [from : Gens, candidate : 0..MaxGen, admitted : BOOLEAN,
              st : {"pending", "staged", "committed", "auth_required", "cleared"}]
TablesTyped ==
    /\ conn \in [st : {"absent", "ready", "rotation_pending", "missing", "auth_required"},
                 gen : 0..MaxGen, current : 0..MaxGen, pending : 0..MaxGen]
    /\ rows \in Seq(Rotations)
    /\ secrets \in [Gens -> {"absent", "live", "retired"}]
    /\ spends \in [Gens -> Nat]

LEMMA RowTyped ==
    ASSUME RotationAssumption, TablesTyped, NEW i \in 1..Len(rows)
    PROVE  rows[i] \in Rotations /\ rows[i].from \in Gens /\ rows[i].from \in Nat
<1>1. rows[i] \in Rotations
  BY DEF TablesTyped
<1> HIDE DEF TablesTyped
<1>2. rows[i].from \in Gens
  BY <1>1 DEF Rotations
<1> QED
  BY <1>1, <1>2 DEF Gens, RotationAssumption

\* insert_enrollment_inner finds no connection.
LEMMA EnrollTables ==
    ASSUME RotationAssumption, TablesTyped, TablesInv, conn.st = "absent",
           conn' = [st |-> "ready", gen |-> 1, current |-> 1, pending |-> 0],
           rows' = rows, secrets' = [secrets EXCEPT ![1] = "live"], spends' = spends
    PROVE  TablesTyped' /\ TablesInv'
<1> USE DEF Gens
<1>1. MaxGen \in Nat /\ MaxGen >= 1 /\ 1 \in Gens
  BY DEF RotationAssumption
<1>2. rows = <<>> /\ Len(rows) = 0 /\ conn.gen = 0 /\ \A g \in Gens : secrets[g] = "absent"
  BY DEF TablesInv, Consistent
<1>3. TablesTyped'
  BY <1>1 DEF TablesTyped
<1>4. Consistent' /\ FromOnce'
  BY <1>1, <1>2 DEF Consistent, FromOnce
<1>5. Unspent'
  BY <1>1, <1>2 DEF Unspent, TablesInv
<1>6. CurrentIsLive'
  BY <1>1, <1>2 DEF CurrentIsLive, TablesTyped
<1>7. RefreshSpentOnce'
  BY <1>1, <1>2 DEF RefreshSpentOnce, TablesInv, TablesTyped, Unspent
<1> QED
  BY <1>3, <1>4, <1>5, <1>6, <1>7 DEF TablesInv

\* begin_rotation_inner: the generation that is ready has no rotation yet.
LEMMA BeginTables ==
    ASSUME RotationAssumption, TablesTyped, TablesInv, conn.st = "ready", conn.gen < MaxGen,
           conn' = [conn EXCEPT !.st = "rotation_pending", !.pending = Len(rows) + 1],
           rows' = Append(rows, [from |-> conn.gen, st |-> "pending",
                                 candidate |-> 0, admitted |-> FALSE]),
           secrets' = secrets, spends' = spends
    PROVE  TablesTyped' /\ TablesInv'
<1> USE DEF Gens
<1> DEFINE r == [from |-> conn.gen, st |-> "pending", candidate |-> 0, admitted |-> FALSE]
<1>1. MaxGen \in Nat /\ conn.gen \in Nat /\ conn.gen # 0 /\ Len(rows) \in Nat
      /\ Len(rows) < conn.gen /\ conn.gen \in Gens /\ conn.current = conn.gen
  BY DEF RotationAssumption, TablesTyped, TablesInv, Consistent, CurrentIsLive
<1>2. r \in Rotations
  BY <1>1 DEF Rotations
<1>3. /\ rows' \in Seq(Rotations) /\ Len(rows') = Len(rows) + 1 /\ rows'[Len(rows) + 1] = r
      /\ \A i \in 1..Len(rows) : rows'[i] = rows[i]
  BY <1>2 DEF TablesTyped
<1>a. conn' = [st |-> "rotation_pending", gen |-> conn.gen, current |-> conn.current,
               pending |-> Len(rows) + 1]
  BY DEF TablesTyped
<1>4. TablesTyped'
  BY <1>1, <1>3, <1>a DEF TablesTyped
<1>5. Consistent'
  BY <1>1, <1>3 DEF Consistent, TablesTyped
<1>6. FromOnce'
  <2>1. \A i \in 1..Len(rows) : rows[i].from < conn.gen
    BY DEF FromOnce, TablesInv
  <2>2. \A i \in 1..Len(rows') : i # Len(rows) + 1 => i \in 1..Len(rows)
    BY <1>1, <1>3
  <2>3. \A i \in 1..Len(rows') : rows'[i].from <= conn.gen /\ rows'[i].from \in Nat
    <3> SUFFICES ASSUME NEW i \in 1..Len(rows')
                 PROVE  rows'[i].from <= conn.gen /\ rows'[i].from \in Nat
      OBVIOUS
    <3>1. CASE i = Len(rows) + 1
      BY <1>1, <1>3, <3>1
    <3>2. CASE i \in 1..Len(rows)
      <4>1. rows'[i] = rows[i] /\ rows[i].from < conn.gen /\ rows[i].from \in Nat
        BY <1>3, <2>1, <3>2, RowTyped
      <4> QED
        BY <4>1, <1>1
    <3> QED
      BY <2>2, <3>1, <3>2
  <2>4. \A i, j \in 1..Len(rows') : rows'[i].from = rows'[j].from => i = j
    BY <1>1, <1>3, <2>1, <2>2 DEF FromOnce, TablesInv
  <2> QED
    BY <1>a, <2>3, <2>4 DEF FromOnce
<1>7. Unspent'
  BY <1>1, <1>3 DEF Unspent, TablesInv, TablesTyped, RefreshSpentOnce
<1>8. CurrentIsLive'
  BY <1>1, <1>3 DEF CurrentIsLive, TablesInv, Consistent, TablesTyped
<1>9. RefreshSpentOnce'
  BY DEF RefreshSpentOnce, TablesInv, TablesTyped
<1> QED
  BY <1>4, <1>5, <1>6, <1>7, <1>8, <1>9 DEF TablesInv

\* A row keeps its place when it is changed.
LEMMA RowChanges ==
    ASSUME TablesTyped, NEW id \in 1..Len(rows), NEW r \in Rotations, rows' = [rows EXCEPT ![id] = r]
    PROVE  /\ rows' \in Seq(Rotations) /\ Len(rows') = Len(rows) /\ rows'[id] = r
           /\ \A i \in 1..Len(rows) : i # id => rows'[i] = rows[i]
  BY DEF TablesTyped

\* admit_token_send_inner: what is admitted now has not been spent.
LEMMA AdmitTables ==
    ASSUME RotationAssumption, TablesTyped, TablesInv, NEW id, Rotating(id),
           rows' = [rows EXCEPT ![id] = [rows[id] EXCEPT !.admitted = TRUE]],
           UNCHANGED <<conn, secrets, spends>>
    PROVE  TablesTyped' /\ TablesInv'
<1> USE DEF Gens
<1>1. id \in 1..Len(rows) /\ rows[id] \in Rotations
  BY DEF TablesInv, Consistent, Rotating, TablesTyped
<1> DEFINE r == [rows[id] EXCEPT !.admitted = TRUE]
<1>2. r \in Rotations /\ r.from = rows[id].from /\ r.st = rows[id].st
      /\ r.candidate = rows[id].candidate /\ r.admitted
  BY <1>1 DEF Rotations
<1>3. /\ rows' \in Seq(Rotations) /\ Len(rows') = Len(rows)
      /\ \A i \in 1..Len(rows) : /\ rows'[i].from = rows[i].from /\ rows'[i].st = rows[i].st
                                 /\ rows'[i].candidate = rows[i].candidate
                                 /\ rows[i].admitted => rows'[i].admitted
  BY <1>1, <1>2, RowChanges
<1>4. TablesTyped'
  BY <1>3 DEF TablesTyped
<1>5. Consistent'
  BY <1>3 DEF Consistent, TablesInv
<1>6. FromOnce'
  BY <1>3 DEF FromOnce, TablesInv
<1>7. Unspent'
  BY <1>3 DEF Unspent, TablesInv
<1>8. CurrentIsLive'
  <2>1. conn.pending \in 1..Len(rows)
    BY <1>1 DEF Rotating
  <2> QED
    BY <1>3, <2>1 DEF CurrentIsLive, TablesInv
<1>9. RefreshSpentOnce'
  BY DEF RefreshSpentOnce, TablesInv
<1> QED
  BY <1>4, <1>5, <1>6, <1>7, <1>8, <1>9 DEF TablesInv

\* stage_rotation_inner: the candidate is the next generation, and it is paid for.
LEMMA StageTables ==
    ASSUME RotationAssumption, TablesTyped, TablesInv, NEW id, Rotating(id),
           rows[id].st = "pending", spends[rows[id].from] = 1,
           rows' = [rows EXCEPT ![id] = [from |-> rows[id].from, st |-> "staged",
                                         candidate |-> conn.gen + 1, admitted |-> rows[id].admitted]],
           secrets' = [secrets EXCEPT ![conn.gen + 1] = "live"],
           UNCHANGED <<conn, spends>>
    PROVE  TablesTyped' /\ TablesInv'
<1> USE DEF Gens
<1>1. id \in 1..Len(rows) /\ rows[id] \in Rotations /\ id = conn.pending
      /\ conn.st = "rotation_pending"
  BY DEF TablesInv, Consistent, Rotating, TablesTyped
<1>2. /\ MaxGen \in Nat /\ conn.gen \in Nat /\ conn.gen + 1 \in Gens /\ conn.gen \in Gens
      /\ rows[id].from = conn.gen
  BY <1>1 DEF RotationAssumption, TablesTyped, TablesInv, Consistent
<1> DEFINE r == [from |-> rows[id].from, st |-> "staged",
                 candidate |-> conn.gen + 1, admitted |-> rows[id].admitted]
<1>3. r \in Rotations /\ r.from = conn.gen /\ r.st = "staged" /\ r.candidate = conn.gen + 1
      /\ r.admitted = rows[id].admitted
  BY <1>1, <1>2 DEF Rotations
<1>4. /\ rows' \in Seq(Rotations) /\ Len(rows') = Len(rows) /\ rows'[id] = r
      /\ \A i \in 1..Len(rows) : rows'[i].from = rows[i].from
                                 /\ rows'[i].admitted = rows[i].admitted
  <2>1. rows' = [rows EXCEPT ![id] = r]
    OBVIOUS
  <2> HIDE DEF r
  <2>2. /\ rows' \in Seq(Rotations) /\ Len(rows') = Len(rows) /\ rows'[id] = r
        /\ \A i \in 1..Len(rows) : i # id => rows'[i] = rows[i]
    BY <1>1, <1>3, <2>1, RowChanges
  <2> QED
    BY <1>2, <1>3, <2>2
<1>5. /\ secrets' \in [Gens -> {"absent", "live", "retired"}] /\ secrets'[conn.gen + 1] = "live"
      /\ \A g \in Gens : g # conn.gen + 1 => secrets'[g] = secrets[g]
  BY <1>2 DEF TablesTyped
<1>6. TablesTyped'
  BY <1>4, <1>5 DEF TablesTyped
<1>7. Consistent'
  BY <1>1, <1>2, <1>3, <1>4, <1>5 DEF Consistent, TablesInv
<1>8. FromOnce'
  BY <1>4 DEF FromOnce, TablesInv
<1>9. Unspent'
  BY <1>4 DEF Unspent, TablesInv
<1>10. CurrentIsLive'
  BY <1>1, <1>2, <1>3, <1>4, <1>5 DEF CurrentIsLive, TablesInv
<1>11. RefreshSpentOnce'
  BY <1>2, <1>5 DEF RefreshSpentOnce, TablesInv
<1> QED
  BY <1>6, <1>7, <1>8, <1>9, <1>10, <1>11 DEF TablesInv

\* finalize_rotation_inner: the new generation has not been spent.
LEMMA FinalizeTables ==
    ASSUME RotationAssumption, TablesTyped, TablesInv, NEW id, Rotating(id),
           rows[id].st = "staged",
           conn' = [st |-> "ready", gen |-> conn.gen + 1, current |-> rows[id].candidate, pending |-> 0],
           rows' = [rows EXCEPT ![id] = [rows[id] EXCEPT !.st = "committed"]],
           secrets' = [secrets EXCEPT ![conn.current] = "retired"],
           spends' = spends
    PROVE  TablesTyped' /\ TablesInv'
<1> USE DEF Gens
<1>1. id \in 1..Len(rows) /\ rows[id] \in Rotations /\ id = conn.pending
      /\ conn.st = "rotation_pending"
  BY DEF TablesInv, Consistent, Rotating, TablesTyped
<1>2. /\ MaxGen \in Nat /\ conn.gen \in Nat /\ conn.gen + 1 \in Gens /\ conn.gen \in Gens
      /\ Len(rows) \in Nat /\ Len(rows) <= conn.gen
      /\ rows[id].candidate = conn.gen + 1 /\ conn.current = conn.gen
      /\ secrets[conn.gen + 1] = "live"
  BY <1>1 DEF RotationAssumption, TablesTyped, TablesInv, Consistent, CurrentIsLive
<1> DEFINE r == [rows[id] EXCEPT !.st = "committed"]
<1>3. r \in Rotations /\ r.from = rows[id].from /\ r.admitted = rows[id].admitted
  BY <1>1 DEF Rotations
<1>4. /\ rows' \in Seq(Rotations) /\ Len(rows') = Len(rows)
      /\ \A i \in 1..Len(rows) : rows'[i].from = rows[i].from
                                 /\ rows'[i].admitted = rows[i].admitted
                                 /\ rows[i].from \in Nat
  <2>1. rows' = [rows EXCEPT ![id] = r]
    OBVIOUS
  <2>2. \A i \in 1..Len(rows) : rows[i].from \in Nat
    BY RowTyped
  <2> HIDE DEF r
  <2>3. /\ rows' \in Seq(Rotations) /\ Len(rows') = Len(rows) /\ rows'[id] = r
        /\ \A i \in 1..Len(rows) : i # id => rows'[i] = rows[i]
    BY <1>1, <1>3, <2>1, RowChanges
  <2> QED
    BY <1>3, <2>2, <2>3
<1>5. /\ secrets' \in [Gens -> {"absent", "live", "retired"}] /\ secrets'[conn.gen] = "retired"
      /\ \A g \in Gens : g # conn.gen => secrets'[g] = secrets[g]
  BY <1>2 DEF TablesTyped
<1>6. TablesTyped'
  BY <1>2, <1>4, <1>5 DEF TablesTyped
<1>7. Consistent'
  BY <1>2, <1>4 DEF Consistent, TablesInv
<1>8. FromOnce'
  BY <1>2, <1>4 DEF FromOnce, TablesInv
<1>9. Unspent'
  BY <1>2, <1>4 DEF Unspent, TablesInv
<1>10. CurrentIsLive'
  BY <1>1, <1>2, <1>5 DEF CurrentIsLive, TablesInv
<1>11. RefreshSpentOnce'
  <2>1. spends[conn.gen + 1] = 0
    BY <1>2 DEF TablesInv, Unspent
  <2>2. secrets[conn.gen] # "absent"
    BY <1>1 DEF TablesInv, CurrentIsLive
  <2>3. \A g \in Gens : secrets'[g] # "absent" => secrets[g] # "absent"
    BY <1>5, <2>2
  <2>4. conn'.gen = conn.gen + 1
    OBVIOUS
  <2> QED
    BY <2>1, <2>3, <2>4 DEF RefreshSpentOnce, TablesInv
<1> QED
  BY <1>6, <1>7, <1>8, <1>9, <1>10, <1>11 DEF TablesInv

\* clear_credentials_inner and advance_generation: nothing usable is left.
LEMMA WithdrawTables ==
    ASSUME RotationAssumption, TablesTyped, TablesInv,
           NEW rst \in {"auth_required", "cleared"}, NEW cst \in {"missing", "auth_required"},
           conn.st # "absent", conn.gen < MaxGen,
           conn' = Withdraw(rst, cst).conn, rows' = Withdraw(rst, cst).rows,
           secrets' = Withdraw(rst, cst).secrets, spends' = spends
    PROVE  TablesTyped' /\ TablesInv'
<1> USE DEF Gens
<1>1. /\ conn' = [st |-> cst, gen |-> conn.gen + 1, current |-> 0, pending |-> 0]
      /\ rows' = [i \in DOMAIN rows |->
                    IF Open(rows[i]) THEN [rows[i] EXCEPT !.st = rst] ELSE rows[i]]
      /\ secrets' = [g \in Gens |-> IF secrets[g] = "live" THEN "retired" ELSE secrets[g]]
  BY DEF Withdraw
<1>2. /\ MaxGen \in Nat /\ conn.gen \in Nat /\ conn.gen + 1 \in 0..MaxGen
      /\ Len(rows) \in Nat /\ Len(rows) <= conn.gen /\ DOMAIN rows = 1..Len(rows)
  BY DEF RotationAssumption, TablesTyped, TablesInv, Consistent
<1>3. \A i \in 1..Len(rows) : /\ rows'[i] \in Rotations /\ rows'[i].from = rows[i].from
                              /\ rows'[i].admitted = rows[i].admitted /\ rows[i].from \in Nat
  <2> SUFFICES ASSUME NEW i \in 1..Len(rows)
               PROVE  /\ rows'[i] \in Rotations /\ rows'[i].from = rows[i].from
                      /\ rows'[i].admitted = rows[i].admitted /\ rows[i].from \in Nat
    OBVIOUS
  <2>1. rows[i] \in Rotations /\ rows[i].from \in Nat
    BY RowTyped
  <2>2. rows'[i] = rows[i] \/ rows'[i] = [rows[i] EXCEPT !.st = rst]
    BY <1>1, <1>2
  <2> QED
    BY <2>1, <2>2 DEF Rotations
<1>4. rows' \in Seq(Rotations) /\ Len(rows') = Len(rows)
  BY <1>1, <1>2, <1>3
<1>5. /\ secrets' \in [Gens -> {"absent", "live", "retired"}]
      /\ \A g \in Gens : secrets'[g] # "live" /\ (secrets'[g] # "absent" => secrets[g] # "absent")
  BY <1>1 DEF TablesTyped
<1>6. TablesTyped'
  BY <1>1, <1>2, <1>4, <1>5 DEF TablesTyped
<1>7. Consistent'
  BY <1>1, <1>2, <1>4 DEF Consistent, TablesInv
<1>8. FromOnce'
  <2>1. \A i \in 1..Len(rows) : rows[i].from <= conn.gen
    BY DEF FromOnce, TablesInv
  <2>2. conn'.gen = conn.gen + 1
    BY <1>1
  <2>3. \A i \in 1..Len(rows') : rows'[i].from < conn'.gen /\ rows'[i].from \in Nat
    BY <1>2, <1>3, <1>4, <2>1, <2>2
  <2>4. \A i, j \in 1..Len(rows') : rows'[i].from = rows'[j].from => i = j
    BY <1>3, <1>4 DEF FromOnce, TablesInv
  <2> QED
    BY <1>2, <2>2, <2>3, <2>4 DEF FromOnce
<1>9. Unspent'
  BY <1>1, <1>2, <1>3, <1>4 DEF Unspent, TablesInv
<1>10. CurrentIsLive'
  BY <1>1, <1>5 DEF CurrentIsLive
<1>11. RefreshSpentOnce'
  BY <1>1, <1>5 DEF RefreshSpentOnce, TablesInv
<1> QED
  BY <1>6, <1>7, <1>8, <1>9, <1>10, <1>11 DEF TablesInv

-----------------------------------------------------------------------------
(* What a step of one operation leaves of the others. *)

SessRecord == [client : {"none", "open"}, alive : BOOLEAN, intx : BOOLEAN,
               locks : {"none", "user", "row"},
               call : [k : Calls \cup {None}, id : 0..MaxGen, reply : {None, "ok", "no"}]]
OpRecord == [pc : Pcs, s : Sessions \cup {None}, id : 0..MaxGen,
             admitted : BOOLEAN, then : Pcs, loaded : 0..MaxGen]
CatRecord == [pc : {"idle", "flight"}, s : Sessions \cup {None}]
EnRecord == [pc : {"start", "flight1", "metadata", "flight2", "profile", "insert",
                   "verify", "receipt", "failed"}, s : Sessions \cup {None}]

LEMMA Types ==
    TypeOK <=> /\ actor \in BOOLEAN /\ TablesTyped
               /\ sess \in [Sessions -> SessRecord] /\ op \in [Ops -> OpRecord]
               /\ cat \in [Ops -> CatRecord] /\ en \in EnRecord /\ faults \in 0..MaxFaults
               /\ adv \in Sessions \cup {None} /\ (adv # None => sess[adv].alive)
  BY DEF TypeOK, TablesTyped, Rotations, SessRecord, OpRecord, CatRecord, EnRecord

LEMMA TypesNext ==
    TypeOK' <=> /\ actor' \in BOOLEAN /\ TablesTyped'
                /\ sess' \in [Sessions -> SessRecord] /\ op' \in [Ops -> OpRecord]
                /\ cat' \in [Ops -> CatRecord] /\ en' \in EnRecord /\ faults' \in 0..MaxFaults
                /\ adv' \in Sessions \cup {None} /\ (adv' # None => sess'[adv'].alive)
  BY DEF TypeOK, TablesTyped, Rotations, SessRecord, OpRecord, CatRecord, EnRecord

\* An operation keeps what it relies on while its own record and the tables stay and
\* its session stays or ends.
LEMMA Undisturbed ==
    ASSUME NEW q \in Ops, OpInv(q), op'[q] = op[q], UNCHANGED <<actor, conn, rows, spends>>,
           op[q].pc # "idle" =>
             \/ /\ sess'[op[q].s].call = sess[op[q].s].call
                /\ sess'[op[q].s].alive = sess[op[q].s].alive
             \/ ~sess'[op[q].s].alive /\ sess'[op[q].s].call = NoCall
    PROVE  /\ Waiting(q)' /\ StillLoaded(q)' /\ Admitted(q)' /\ Paid(q)'
           /\ Holds(q)' => Holds(q) /\ Held(q)' = Held(q)
<1>1. CASE op[q].pc = "idle"
  BY <1>1 DEF Waiting, StillLoaded, Admitted, MayAdmit, Paid, HasPaid, Holds, Held, Waits, AfterToken, Rotates
<1>2. CASE /\ op[q].pc # "idle"
           /\ sess'[op[q].s].call = sess[op[q].s].call
           /\ sess'[op[q].s].alive = sess[op[q].s].alive
  <2>1. Waiting(q)'
    BY <1>2 DEF OpInv, Waiting, CallAt, AliveAt
  <2>2. StillLoaded(q)'
    BY <1>2 DEF OpInv, StillLoaded, CallAt, AliveAt, Waits, Rotation, Advanced
  <2>3. Admitted(q)' /\ Paid(q)'
    BY <1>2 DEF OpInv, Admitted, MayAdmit, Paid, HasPaid, CallAt, Waits
  <2>4. Holds(q)' => Holds(q) /\ Held(q)' = Held(q)
    BY <1>2 DEF Holds, Held, CallAt, Waits
  <2> QED
    BY <2>1, <2>2, <2>3, <2>4
<1>3. CASE /\ op[q].pc # "idle"
           /\ ~sess'[op[q].s].alive /\ sess'[op[q].s].call = NoCall
  <2>1. Waiting(q)'
    BY <1>3 DEF OpInv, Waiting, CallAt, AliveAt, NoCall
  <2>2. StillLoaded(q)'
    BY <1>3 DEF StillLoaded, AliveAt
  <2>3. Admitted(q)' /\ Paid(q)'
    BY <1>3 DEF OpInv, Admitted, MayAdmit, Paid, HasPaid, CallAt, Waits, NoCall, None
  <2>4. Holds(q)' => Holds(q) /\ Held(q)' = Held(q)
    BY <1>3 DEF Holds, Held, CallAt, Waits, NoCall, None, Rotates
  <2> QED
    BY <2>1, <2>2, <2>3, <2>4
<1> QED
  BY <1>1, <1>2, <1>3

\* Claims that are only given up stay apart.
LEMMA ClaimsStay ==
    ASSUME \A q \in Ops : Claimed(q), rows' = rows,
           \A q \in Ops : Holds(q)' =>
             Holds(q) /\ Held(q)' = Held(q) /\ op'[q].loaded = op[q].loaded
    PROVE  \A q \in Ops : Claimed(q)'
  BY DEF Claimed

\* The session, the record and the invariant of an operation that is at work.
LEMMA AtWork ==
    ASSUME RotationInv, NEW o \in Ops, op[o].pc # "idle"
    PROVE  /\ op \in [Ops -> OpRecord] /\ sess \in [Sessions -> SessRecord]
           /\ op[o] \in OpRecord /\ op[o].s \in Sessions /\ sess[op[o].s] \in SessRecord
           /\ Waiting(o) /\ StillLoaded(o) /\ Claimed(o) /\ Admitted(o) /\ Paid(o)
           /\ (op[o].pc # "locking" /\ sess[op[o].s].alive => adv = op[o].s)
           /\ (~sess[op[o].s].alive => sess[op[o].s].locks = "none" /\ sess[op[o].s].call = NoCall)
           /\ conn.st # "absent"
<1>1. op \in [Ops -> OpRecord] /\ sess \in [Sessions -> SessRecord]
  BY Types DEF RotationInv
<1>2. op[o] \in OpRecord /\ op[o].s \in Sessions
  BY <1>1 DEF RotationInv, Owned, OpRecord
<1> QED
  BY <1>1, <1>2 DEF RotationInv, OpInv, Covered, DeadIsEmpty, AliveAt

\* A step that leaves the rows and gives no operation a new claim.
LEMMA StepKeeps ==
    ASSUME RotationInv, rows' = rows,
           TypeOK', DeadIsEmpty', Owned', Covered', TablesInv', CallsNameRows', Receipt',
           \A q \in Ops : Fences(q)',
           \A q \in Ops : Waiting(q)' /\ StillLoaded(q)' /\ Admitted(q)' /\ Paid(q)',
           \A q \in Ops : Holds(q)' =>
             Holds(q) /\ Held(q)' = Held(q) /\ op'[q].loaded = op[q].loaded
    PROVE  RotationInv'
<1>1. \A q \in Ops : Claimed(q)'
  BY ClaimsStay DEF RotationInv, OpInv
<1>2. \A q \in Ops : OpInv(q)'
  BY <1>1 DEF OpInv
<1> QED
  BY <1>2 DEF RotationInv

\* What a step that moves one operation and its session leaves of the sessions.
LEMMA MoveShape ==
    ASSUME RotationInv, NEW o \in Ops, op[o].pc # "idle", NEW s, s = op[o].s,
           UNCHANGED <<actor, conn, rows, secrets, adv, cat, en, faults>>,
           \A q \in Ops : q # o => op'[q] = op[q],
           \A t \in Sessions : t # s => sess'[t] = sess[t],
           sess'[s].alive = sess[s].alive,
           ~sess[s].alive => sess'[s].locks = "none" /\ sess'[s].call = NoCall,
           \/ op'[o].pc = "idle" /\ op'[o].s = None
           \/ op'[o].pc # "idle" /\ op'[o].s = s /\ op[o].pc # "locking",
           sess'[s].call.k \notin {None, "enroll"} => adv = s,
           o \notin Overlap /\ op'[o].pc = "flight" /\ sess[s].alive => sess'[s].locks = "row" /\ actor
    PROVE  /\ DeadIsEmpty' /\ Owned' /\ Covered' /\ Receipt' /\ \A q \in Ops : Fences(q)'
           /\ \A q \in Ops : q # o /\ op[q].pc # "idle" => sess'[op[q].s] = sess[op[q].s]
           /\ adv' # None => sess'[adv'].alive
<1>1. /\ op[o].s \in Sessions /\ conn.st # "absent"
      /\ (op[o].pc # "locking" /\ sess[s].alive => adv = s)
  BY AtWork
<1>2. \A q \in Ops : q # o => op[q].s # s /\ cat[q].s # s
  BY <1>1 DEF RotationInv, Owned
<1>3. adv' # None => sess'[adv'].alive
  BY Types DEF RotationInv
<1>4. DeadIsEmpty'
  BY DEF RotationInv, DeadIsEmpty
<1>5. Owned'
  BY <1>1 DEF RotationInv, Owned
<1>6. \A q \in Ops : q # o /\ op[q].pc # "idle" => sess'[op[q].s] = sess[op[q].s]
  BY <1>2, AtWork
<1>7. Covered'
  <2>1. \A q \in Ops : op'[q].pc \notin {"idle", "locking"} /\ sess'[op'[q].s].alive => adv = op'[q].s
    <3> SUFFICES ASSUME NEW q \in Ops, op'[q].pc \notin {"idle", "locking"}, sess'[op'[q].s].alive
                 PROVE  adv = op'[q].s
      OBVIOUS
    <3>1. CASE q = o
      BY <3>1, <1>1
    <3>2. CASE q # o
      <4>1. op[q].s \in Sessions /\ op[q].s # s
        BY <3>2, <1>2, AtWork
      <4> QED
        BY <3>2, <4>1 DEF RotationInv, Covered, AliveAt
    <3> QED
      BY <3>1, <3>2
  <2>2. \A t \in Sessions : sess'[t].call.k \notin {None, "enroll"} => adv = t
    BY DEF RotationInv, Covered
  <2>3. \A q \in Ops : op'[q].pc # "idle" => conn.st # "absent"
    BY <1>1
  <2> QED
    BY <2>1, <2>2, <2>3 DEF Covered, AliveAt
<1>8. \A q \in Ops : Fences(q)'
  <2> SUFFICES ASSUME NEW q \in Ops, q \notin Overlap PROVE Fences(q)'
    BY DEF Fences
  <2>1. CASE q = o
    <3>1. cat[o].pc # "flight"
      BY <2>1 DEF RotationInv, Fences
    <3> QED
      BY <2>1, <3>1 DEF Fences, AliveAt
  <2>2. CASE q # o
    <3>1. op[q].pc # "idle" => sess'[op[q].s] = sess[op[q].s]
      BY <2>2, <1>2, AtWork
    <3>2. cat[q].pc = "flight" => sess'[cat[q].s] = sess[cat[q].s]
      BY <2>2, <1>2, Types DEF RotationInv, Owned, CatRecord
    <3> QED
      BY <2>2, <3>1, <3>2 DEF RotationInv, Fences, AliveAt
  <2> QED
    BY <2>1, <2>2
<1>9. Receipt'
  BY DEF RotationInv, Receipt
<1> QED
  BY <1>3, <1>4, <1>5, <1>6, <1>7, <1>8, <1>9

\* A step that moves one operation and its session, and neither the tables nor the lock.
LEMMA MoveKeeps ==
    ASSUME RotationInv, NEW o \in Ops, op[o].pc # "idle", NEW s, s = op[o].s,
           UNCHANGED <<actor, conn, rows, secrets, spends, adv, cat, en, faults>>,
           op' \in [Ops -> OpRecord], \A q \in Ops : q # o => op'[q] = op[q],
           sess' \in [Sessions -> SessRecord],
           \A t \in Sessions : t # s => sess'[t] = sess[t],
           sess'[s].alive = sess[s].alive,
           ~sess[s].alive => sess'[s].locks = "none" /\ sess'[s].call = NoCall,
           \/ op'[o].pc = "idle" /\ op'[o].s = None
           \/ op'[o].pc # "idle" /\ op'[o].s = s /\ op[o].pc # "locking",
           sess'[s].call.k \notin {None, "enroll"} => adv = s,
           sess'[s].call.k \in {"admit", "stage", "finalize"} => sess'[s].call.id \in 1..Len(rows),
           sess'[s].call.k = "stage" => spends[rows[sess'[s].call.id].from] = 1,
           o \notin Overlap /\ op'[o].pc = "flight" /\ sess[s].alive => sess'[s].locks = "row" /\ actor,
           Waiting(o)', StillLoaded(o)', Admitted(o)', Paid(o)',
           Holds(o)' => Holds(o) /\ Held(o)' = Held(o) /\ op'[o].loaded = op[o].loaded
    PROVE  RotationInv'
<1>1. /\ DeadIsEmpty' /\ Owned' /\ Covered' /\ Receipt' /\ \A q \in Ops : Fences(q)'
      /\ \A q \in Ops : q # o /\ op[q].pc # "idle" => sess'[op[q].s] = sess[op[q].s]
      /\ adv' # None => sess'[adv'].alive
  BY MoveShape
<1>2. TypeOK'
  <2>1. TablesTyped'
    BY Types DEF RotationInv, TablesTyped
  <2> QED
    BY <1>1, <2>1, Types, TypesNext DEF RotationInv
<1>3. TablesInv'
  BY DEF RotationInv, TablesInv, Consistent, FromOnce, Unspent, CurrentIsLive, RefreshSpentOnce
<1>4. CallsNameRows'
  BY DEF RotationInv, CallsNameRows
<1>5. \A q \in Ops : q # o =>
        /\ Waiting(q)' /\ StillLoaded(q)' /\ Admitted(q)' /\ Paid(q)'
        /\ Holds(q)' => Holds(q) /\ Held(q)' = Held(q)
  <2> SUFFICES ASSUME NEW q \in Ops, q # o
               PROVE  /\ Waiting(q)' /\ StillLoaded(q)' /\ Admitted(q)' /\ Paid(q)'
                      /\ Holds(q)' => Holds(q) /\ Held(q)' = Held(q)
    OBVIOUS
  <2>1. op[q].pc # "idle" => sess'[op[q].s] = sess[op[q].s]
    BY <1>1
  <2> QED
    BY <2>1, Undisturbed DEF RotationInv
<1> QED
  BY <1>1, <1>2, <1>3, <1>4, <1>5, StepKeeps



\* The same, of a step that leaves the call of the session alone.
LEMMA MoveKeepsCall ==
    ASSUME RotationInv, NEW o \in Ops, op[o].pc # "idle", NEW s, s = op[o].s,
           UNCHANGED <<actor, conn, rows, secrets, spends, adv, cat, en, faults>>,
           op' \in [Ops -> OpRecord], \A q \in Ops : q # o => op'[q] = op[q],
           sess' \in [Sessions -> SessRecord],
           \A t \in Sessions : t # s => sess'[t] = sess[t],
           sess'[s].alive = sess[s].alive, sess'[s].call = sess[s].call,
           ~sess[s].alive => sess'[s].locks = "none",
           \/ op'[o].pc = "idle" /\ op'[o].s = None
           \/ op'[o].pc # "idle" /\ op'[o].s = s /\ op[o].pc # "locking",
           o \notin Overlap /\ op'[o].pc = "flight" /\ sess[s].alive => sess'[s].locks = "row" /\ actor,
           Waiting(o)', StillLoaded(o)', Admitted(o)', Paid(o)',
           Holds(o)' => Holds(o) /\ Held(o)' = Held(o) /\ op'[o].loaded = op[o].loaded
    PROVE  RotationInv'
<1>1. s \in Sessions /\ (~sess[s].alive => sess[s].call = NoCall)
  BY AtWork
<1>2. /\ sess[s].call.k \notin {None, "enroll"} => adv = s
      /\ sess[s].call.k \in {"admit", "stage", "finalize"} => sess[s].call.id \in 1..Len(rows)
      /\ sess[s].call.k = "stage" => spends[rows[sess[s].call.id].from] = 1
  BY <1>1 DEF RotationInv, Covered, CallsNameRows
<1> QED
  BY <1>1, <1>2, MoveKeeps

\* An operation that has failed or is gone claims nothing.
LEMMA RestingIsFine ==
    ASSUME NEW o \in Ops, op'[o].pc \in {"idle", "failed"}
    PROVE  /\ Waiting(o)' /\ StillLoaded(o)' /\ Admitted(o)' /\ Paid(o)' /\ ~Holds(o)'
  BY DEF Waiting, StillLoaded, Admitted, MayAdmit, Paid, HasPaid, Holds, Waits, Rotates, AfterToken

LEMMA CloseIsTyped ==
    ASSUME sess \in [Sessions -> SessRecord], NEW s \in Sessions, sess' = schedule_close(s)
    PROVE  /\ sess' \in [Sessions -> SessRecord] /\ \A t \in Sessions : t # s => sess'[t] = sess[t]
           /\ sess'[s].alive = sess[s].alive /\ sess'[s].call = sess[s].call
           /\ sess'[s].locks = sess[s].locks
  BY DEF schedule_close, SessRecord

\* A session whose transaction begins or ends.
LEMMA FenceIsTyped ==
    ASSUME sess \in [Sessions -> SessRecord], NEW s \in Sessions, NEW b \in BOOLEAN,
           NEW l \in {"none", "user", "row"},
           sess' = [sess EXCEPT ![s].intx = b, ![s].locks = l]
    PROVE  /\ sess' \in [Sessions -> SessRecord] /\ \A t \in Sessions : t # s => sess'[t] = sess[t]
           /\ sess'[s].alive = sess[s].alive /\ sess'[s].call = sess[s].call
           /\ sess'[s].client = sess[s].client /\ sess'[s].locks = l
<1> DEFINE r == [client |-> sess[s].client, alive |-> sess[s].alive, intx |-> b, locks |-> l,
                 call |-> sess[s].call]
<1>1. sess[s] \in SessRecord
  OBVIOUS
<1>2. r \in SessRecord
  BY <1>1 DEF SessRecord
<1>3. sess' = [sess EXCEPT ![s] = r]
  <2> DEFINE one == [sess[s] EXCEPT !.intx = b]
  <2>1. one = [client |-> sess[s].client, alive |-> sess[s].alive, intx |-> b,
               locks |-> sess[s].locks, call |-> sess[s].call]
    BY <1>1 DEF SessRecord
  <2>2. [one EXCEPT !.locks = l] = r
    <3> HIDE DEF one
    <3> QED
      BY <2>1
  <2>3. sess' = [sess EXCEPT ![s] = [one EXCEPT !.locks = l]]
    OBVIOUS
  <2> QED
    BY <2>2, <2>3
<1> QED
  BY <1>2, <1>3

LEMMA RestKeeps ==
    ASSUME RotationInv, NEW o \in Ops, op[o].pc # "idle", NEW s, s = op[o].s,
           UNCHANGED <<actor, conn, rows, secrets, spends, adv, cat, en, faults>>,
           op' \in [Ops -> OpRecord], \A q \in Ops : q # o => op'[q] = op[q],
           \/ op'[o].pc = "idle" /\ op'[o].s = None
           \/ op'[o].pc = "failed" /\ op'[o].s = s /\ op[o].pc # "locking",
           sess' = sess \/ sess' = schedule_close(s)
    PROVE  RotationInv'
<1>1. sess \in [Sessions -> SessRecord] /\ s \in Sessions /\ (~sess[s].alive => sess[s].locks = "none")
  BY AtWork
<1>2. /\ sess' \in [Sessions -> SessRecord] /\ \A t \in Sessions : t # s => sess'[t] = sess[t]
      /\ sess'[s].alive = sess[s].alive /\ sess'[s].call = sess[s].call
      /\ sess'[s].locks = sess[s].locks
  BY <1>1, CloseIsTyped
<1>3. Waiting(o)' /\ StillLoaded(o)' /\ Admitted(o)' /\ Paid(o)' /\ ~Holds(o)'
  BY RestingIsFine
<1> QED
  BY <1>1, <1>2, <1>3, MoveKeepsCall

-----------------------------------------------------------------------------
(* The steps of an operation. *)

\* The record of an operation after an assignment to its fields.
LEMMA NewRecord ==
    ASSUME op \in [Ops -> OpRecord], NEW o \in Ops, NEW r \in OpRecord, op' = [op EXCEPT ![o] = r]
    PROVE  op' \in [Ops -> OpRecord] /\ op'[o] = r /\ \A q \in Ops : q # o => op'[q] = op[q]
  OBVIOUS

LEMMA NewPc ==
    ASSUME op \in [Ops -> OpRecord], NEW o \in Ops, NEW pc \in Pcs, op' = [op EXCEPT ![o].pc = pc]
    PROVE  /\ op' \in [Ops -> OpRecord] /\ \A q \in Ops : q # o => op'[q] = op[q]
           /\ op'[o].pc = pc /\ op'[o].s = op[o].s /\ op'[o].id = op[o].id
           /\ op'[o].then = op[o].then /\ op'[o].loaded = op[o].loaded
           /\ op'[o].admitted = op[o].admitted
  BY DEF OpRecord

LEMMA NoOpIsTyped == RotationAssumption => NoOp \in OpRecord /\ NoOp.pc = "idle" /\ NoOp.s = None
  BY DEF NoOp, OpRecord, Pcs, None, RotationAssumption

LEMMA GiveUpKeeps ==
    ASSUME RotationAssumption, RotationInv, NEW o \in Ops, GiveUp(o)
    PROVE  RotationInv'
<1>1. op[o].pc # "idle" /\ op \in [Ops -> OpRecord]
  BY AtWork DEF GiveUp
<1>2. op' \in [Ops -> OpRecord] /\ op'[o] = NoOp /\ \A q \in Ops : q # o => op'[q] = op[q]
  BY <1>1, NoOpIsTyped, NewRecord DEF GiveUp
<1> QED
  BY <1>1, <1>2, NoOpIsTyped, RestKeeps DEF GiveUp, durable

LEMMA UnlockKeeps ==
    ASSUME RotationAssumption, RotationInv, NEW o \in Ops, Unlock(o)
    PROVE  RotationInv'
<1> DEFINE r == [NoOp EXCEPT !.loaded = IF op[o].pc = "committed" THEN op[o].loaded + 1
                                        ELSE IF op[o].pc = "ready" THEN op[o].loaded ELSE 0]
<1>1. op[o].pc # "idle" /\ op \in [Ops -> OpRecord] /\ op[o] \in OpRecord /\ Waiting(o)
  BY AtWork DEF Unlock
<1>2. r \in OpRecord /\ r.pc = "idle" /\ r.s = None
  <2>1. PICK n \in 0..MaxGen : r = [NoOp EXCEPT !.loaded = n]
    <3>1. op[o].loaded \in 0..MaxGen /\ (op[o].pc = "committed" => op[o].loaded + 1 \in 0..MaxGen)
          /\ 0 \in 0..MaxGen
      BY <1>1 DEF OpRecord, Waiting, RotationAssumption
    <3> QED
      BY <3>1
  <2> HIDE DEF r
  <2> QED
    BY <2>1, NoOpIsTyped DEF OpRecord
<1>3. op' \in [Ops -> OpRecord] /\ op'[o] = r /\ \A q \in Ops : q # o => op'[q] = op[q]
  BY <1>1, <1>2, NewRecord DEF Unlock
<1> QED
  BY <1>1, <1>2, <1>3, RestKeeps DEF Unlock, durable

LEMMA UnknownKeeps ==
    ASSUME RotationAssumption, RotationInv, NEW o \in Ops, CommitUnknown(o) \/ RequestLost(o)
    PROVE  RotationInv'
<1>1. op[o].pc \notin {"idle", "locking"} /\ op \in [Ops -> OpRecord] /\ op[o].s = op[o].s
  BY AtWork DEF CommitUnknown, RequestLost
<1>2. op' = [op EXCEPT ![o].pc = "failed"] /\ sess' = schedule_close(op[o].s)
      /\ UNCHANGED <<actor, conn, rows, secrets, spends, adv, cat, en, faults>>
  BY DEF CommitUnknown, RequestLost, durable
<1>3. /\ op' \in [Ops -> OpRecord] /\ \A q \in Ops : q # o => op'[q] = op[q]
      /\ op'[o].pc = "failed" /\ op'[o].s = op[o].s
  BY <1>1, <1>2, NewPc DEF Pcs
<1> QED
  BY <1>1, <1>2, <1>3, RestKeeps

LEMMA LockChecksKeeps ==
    ASSUME RotationAssumption, RotationInv, NEW o \in Ops, LockChecks(o)
    PROVE  RotationInv'
<1>1. op[o].pc = "check" /\ op \in [Ops -> OpRecord] /\ op[o].s \in Sessions
      /\ sess \in [Sessions -> SessRecord] /\ Waiting(o)
      /\ UNCHANGED <<actor, conn, rows, secrets, spends, adv, cat, en, faults>>
      /\ (~sess[op[o].s].alive => sess[op[o].s].locks = "none")
  BY AtWork DEF LockChecks, durable
<1>2. CASE actor
  <2>1. op' = [op EXCEPT ![o].pc = "locked"] /\ sess' = sess
    BY <1>2 DEF LockChecks
  <2>2. /\ op' \in [Ops -> OpRecord] /\ \A q \in Ops : q # o => op'[q] = op[q]
        /\ op'[o].pc = "locked" /\ op'[o].s = op[o].s
    BY <1>1, <2>1, NewPc DEF Pcs
  <2>3. Waiting(o)' /\ StillLoaded(o)' /\ Admitted(o)' /\ Paid(o)' /\ ~Holds(o)'
    BY <1>1, <2>1, <2>2
    DEF Waiting, CallAt, StillLoaded, Admitted, MayAdmit, Paid, HasPaid, Holds, Waits, Rotates, AfterToken
  <2> QED
    BY <1>1, <2>1, <2>2, <2>3, MoveKeepsCall
<1>3. CASE ~actor
  <2>1. op' = [op EXCEPT ![o] = NoOp] /\ sess' = schedule_close(op[o].s)
    BY <1>3 DEF LockChecks
  <2>2. op' \in [Ops -> OpRecord] /\ op'[o] = NoOp /\ \A q \in Ops : q # o => op'[q] = op[q]
    BY <1>1, <2>1, NoOpIsTyped, NewRecord
  <2> QED
    BY <1>1, <2>1, <2>2, NoOpIsTyped, RestKeeps
<1> QED
  BY <1>2, <1>3

LEMMA LoadKeeps ==
    ASSUME RotationAssumption, RotationInv, NEW o \in Ops, load(o)
    PROVE  RotationInv'
<1> DEFINE got == LoadedState(o)
           r == [op[o] EXCEPT !.pc = got,
                              !.loaded = IF got = "ready" THEN conn.gen ELSE op[o].loaded,
                              !.id = IF got = "pending" THEN conn.pending ELSE op[o].id]
<1>1. op[o].pc = "locked" /\ op \in [Ops -> OpRecord] /\ op[o] \in OpRecord /\ op[o].s \in Sessions
      /\ sess \in [Sessions -> SessRecord] /\ Waiting(o) /\ sess' = sess
      /\ UNCHANGED <<actor, conn, rows, secrets, spends, adv, cat, en, faults>>
      /\ (~sess[op[o].s].alive => sess[op[o].s].locks = "none")
  BY AtWork DEF load, durable
<1>2. got \in {"failed", "ready", "missing", "pending"}
  BY DEF LoadedState
<1>3. conn.gen \in 0..MaxGen /\ conn.pending \in 0..MaxGen
  BY DEF RotationInv, TypeOK
<1>4. r \in OpRecord /\ r.pc = got /\ r.s = op[o].s
      /\ r.loaded = (IF got = "ready" THEN conn.gen ELSE op[o].loaded)
  <2> HIDE DEF got
  <2> QED
    BY <1>1, <1>2, <1>3 DEF OpRecord, Pcs
<1>5. op' = [op EXCEPT ![o] = r]
  BY <1>1 DEF load
<1>6. op' \in [Ops -> OpRecord] /\ op'[o] = r /\ \A q \in Ops : q # o => op'[q] = op[q]
  BY <1>1, <1>4, <1>5, NewRecord
<1> HIDE DEF got, r
<1>7. Waiting(o)' /\ Admitted(o)' /\ Paid(o)' /\ ~Holds(o)'
  BY <1>1, <1>2, <1>4, <1>6
  DEF Waiting, CallAt, Admitted, MayAdmit, Paid, HasPaid, Holds, Waits, Rotates, AfterToken
<1>8. StillLoaded(o)'
  BY <1>1, <1>2, <1>4, <1>6 DEF StillLoaded, Waits, Rotates
<1> QED
  BY <1>1, <1>2, <1>4, <1>6, <1>7, <1>8, MoveKeepsCall

LEMMA ReadbackKeeps ==
    ASSUME RotationAssumption, RotationInv, NEW o \in Ops, StageReadback(o)
    PROVE  RotationInv'
<1>1. op[o].pc = "staged" /\ op \in [Ops -> OpRecord] /\ op[o].s \in Sessions
      /\ sess \in [Sessions -> SessRecord] /\ Waiting(o) /\ StillLoaded(o) /\ Paid(o) /\ sess' = sess
      /\ UNCHANGED <<actor, conn, rows, secrets, spends, adv, cat, en, faults>>
      /\ (~sess[op[o].s].alive => sess[op[o].s].locks = "none")
  BY AtWork DEF StageReadback, durable
<1>2. PICK pc \in {"checked", "failed"} : op' = [op EXCEPT ![o].pc = pc]
  BY DEF StageReadback
<1>3. /\ op' \in [Ops -> OpRecord] /\ \A q \in Ops : q # o => op'[q] = op[q]
      /\ op'[o].pc = pc /\ op'[o].s = op[o].s /\ op'[o].id = op[o].id
      /\ op'[o].loaded = op[o].loaded
  BY <1>1, <1>2, NewPc DEF Pcs
<1>4. Waiting(o)' /\ Admitted(o)'
  BY <1>1, <1>3 DEF Waiting, CallAt, Admitted, MayAdmit, Waits
<1>5. Paid(o)'
  BY <1>1, <1>3 DEF Paid, HasPaid, AfterToken, Waits
<1>6. StillLoaded(o)'
  BY <1>1, <1>3 DEF StillLoaded, AliveAt, Rotates, Rotation, Waits
<1>7. Holds(o)' => Holds(o) /\ Held(o)' = Held(o)
  BY <1>1, <1>3 DEF Holds, Held, Rotates, Waits
<1> QED
  BY <1>1, <1>3, <1>4, <1>5, <1>6, <1>7, MoveKeepsCall

LEMMA ConfirmKeeps ==
    ASSUME RotationAssumption, RotationInv, NEW o \in Ops, Confirm(o)
    PROVE  RotationInv'
<1>1. op[o].pc = "finalized" /\ op \in [Ops -> OpRecord] /\ op[o] \in OpRecord /\ op[o].s \in Sessions
      /\ sess \in [Sessions -> SessRecord] /\ Waiting(o) /\ StillLoaded(o) /\ sess' = sess
      /\ UNCHANGED <<actor, conn, rows, secrets, spends, adv, cat, en, faults>>
      /\ (~sess[op[o].s].alive => sess[op[o].s].locks = "none")
  BY AtWork DEF Confirm, durable
<1>2. PICK pc \in {"committed", "failed"} :
        op' = [op EXCEPT ![o].pc = pc] /\ (pc = "committed" => conn.gen = op[o].loaded + 1)
  BY DEF Confirm
<1>3. /\ op' \in [Ops -> OpRecord] /\ \A q \in Ops : q # o => op'[q] = op[q]
      /\ op'[o].pc = pc /\ op'[o].s = op[o].s /\ op'[o].loaded = op[o].loaded
  BY <1>1, <1>2, NewPc DEF Pcs
<1>4. pc = "committed" => op[o].loaded < MaxGen
  BY <1>1, <1>2 DEF RotationInv, TypeOK, OpRecord, RotationAssumption
<1>5. Waiting(o)' /\ Admitted(o)' /\ Paid(o)' /\ ~Holds(o)'
  BY <1>1, <1>3, <1>4
  DEF Waiting, CallAt, Admitted, MayAdmit, Paid, HasPaid, Holds, Waits, Rotates, AfterToken
<1>6. StillLoaded(o)'
  BY <1>1, <1>3 DEF StillLoaded, AliveAt, Rotates, Advanced, Waits
<1> QED
  BY <1>1, <1>3, <1>5, <1>6, MoveKeepsCall

LEMMA ReleaseKeeps ==
    ASSUME RotationAssumption, RotationInv, NEW o \in Ops, release_after_headers(o)
    PROVE  RotationInv'
<1>1. op[o].pc = "flight" /\ op \in [Ops -> OpRecord] /\ op[o] \in OpRecord /\ op[o].s \in Sessions
      /\ sess \in [Sessions -> SessRecord] /\ Waiting(o) /\ StillLoaded(o) /\ Paid(o)
      /\ UNCHANGED <<actor, conn, rows, secrets, spends, adv, cat, en, faults>>
      /\ (~sess[op[o].s].alive => sess[op[o].s].locks = "none")
  BY AtWork DEF release_after_headers, durable
<1>2. CASE sess[op[o].s].client = "open" /\ sess[op[o].s].alive
  <2>1. PICK pc \in {op[o].then, "failed"} : op' = [op EXCEPT ![o].pc = pc]
    BY <1>2 DEF release_after_headers
  <2>2. sess' = [sess EXCEPT ![op[o].s].intx = FALSE, ![op[o].s].locks = "none"]
    BY <1>2 DEF release_after_headers
  <2>3. /\ sess' \in [Sessions -> SessRecord] /\ \A t \in Sessions : t # op[o].s => sess'[t] = sess[t]
        /\ sess'[op[o].s].alive = sess[op[o].s].alive /\ sess'[op[o].s].call = sess[op[o].s].call
        /\ sess'[op[o].s].locks = "none"
    BY <1>1, <2>2, FenceIsTyped
  <2>4. pc \in {"discovered", "answered", "metadata", "identified", "failed"}
    BY <1>1 DEF Waiting
  <2>5. /\ op' \in [Ops -> OpRecord] /\ \A q \in Ops : q # o => op'[q] = op[q]
        /\ op'[o].pc = pc /\ op'[o].s = op[o].s /\ op'[o].id = op[o].id
        /\ op'[o].loaded = op[o].loaded
    BY <1>1, <2>1, <2>4, NewPc DEF Pcs
  <2>6. Waiting(o)' /\ Admitted(o)'
    BY <1>1, <2>3, <2>4, <2>5 DEF Waiting, CallAt, Admitted, MayAdmit, Waits
  <2>7. Paid(o)'
    BY <1>1, <2>1, <2>4, <2>5 DEF Paid, HasPaid, AfterToken, Waits
  <2>8. StillLoaded(o)'
    BY <1>1, <2>3, <2>4, <2>5 DEF StillLoaded, AliveAt, Rotates, Rotation, Waits
  <2>9. Holds(o)' => Holds(o) /\ Held(o)' = Held(o)
    BY <1>1, <2>4, <2>5 DEF Holds, Held, Rotates, Waits
  <2> QED
    BY <1>1, <2>3, <2>4, <2>5, <2>6, <2>7, <2>8, <2>9, MoveKeepsCall
<1>3. CASE ~(sess[op[o].s].client = "open" /\ sess[op[o].s].alive)
  <2>1. op' = [op EXCEPT ![o].pc = "failed"] /\ sess' = schedule_close(op[o].s)
    BY <1>3 DEF release_after_headers
  <2>2. /\ op' \in [Ops -> OpRecord] /\ \A q \in Ops : q # o => op'[q] = op[q]
        /\ op'[o].pc = "failed" /\ op'[o].s = op[o].s
    BY <1>1, <2>1, NewPc DEF Pcs
  <2> QED
    BY <1>1, <2>1, <2>2, RestKeeps
<1> QED
  BY <1>2, <1>3

-----------------------------------------------------------------------------
(* Transactions sent and received. *)

CallRecord == [k : Calls \cup {None}, id : 0..MaxGen, reply : {None, "ok", "no"}]

LEMMA CallIsTyped ==
    ASSUME sess \in [Sessions -> SessRecord], NEW s \in Sessions, NEW c \in CallRecord,
           sess' = [sess EXCEPT ![s].call = c]
    PROVE  /\ sess' \in [Sessions -> SessRecord] /\ \A t \in Sessions : t # s => sess'[t] = sess[t]
           /\ sess'[s].alive = sess[s].alive /\ sess'[s].call = c
           /\ sess'[s].client = sess[s].client /\ sess'[s].locks = sess[s].locks
  BY DEF SessRecord, CallRecord

LEMMA NoCallIsTyped == RotationAssumption => NoCall \in CallRecord /\ NoCall.k = None /\ NoCall.reply = None
  BY DEF NoCall, CallRecord, None, RotationAssumption

LEMMA NewPcThen ==
    ASSUME op \in [Ops -> OpRecord], NEW o \in Ops, NEW pc \in Pcs, NEW then \in Pcs,
           op' = [op EXCEPT ![o].pc = pc, ![o].then = then]
    PROVE  /\ op' \in [Ops -> OpRecord] /\ \A q \in Ops : q # o => op'[q] = op[q]
           /\ op'[o].pc = pc /\ op'[o].s = op[o].s /\ op'[o].id = op[o].id
           /\ op'[o].then = then /\ op'[o].loaded = op[o].loaded
           /\ op'[o].admitted = op[o].admitted
<1> DEFINE r == [pc |-> pc, s |-> op[o].s, id |-> op[o].id, admitted |-> op[o].admitted,
                 then |-> then, loaded |-> op[o].loaded]
<1>1. op[o] \in OpRecord
  OBVIOUS
<1>2. r \in OpRecord
  BY <1>1 DEF OpRecord
<1>3. op' = [op EXCEPT ![o] = r]
  <2> DEFINE one == [op[o] EXCEPT !.pc = pc]
  <2>1. one = [pc |-> pc, s |-> op[o].s, id |-> op[o].id, admitted |-> op[o].admitted,
               then |-> op[o].then, loaded |-> op[o].loaded]
    BY <1>1 DEF OpRecord
  <2>2. [one EXCEPT !.then = then] = r
    <3> HIDE DEF one
    <3> QED
      BY <2>1
  <2>3. op' = [op EXCEPT ![o] = [one EXCEPT !.then = then]]
    OBVIOUS
  <2> QED
    BY <2>2, <2>3
<1> QED
  BY <1>2, <1>3

\* A transaction is sent: what its operation knows is what the server will find.
LEMMA SendKeeps ==
    ASSUME RotationAssumption, RotationInv, NEW o \in Ops, NEW from, NEW k \in Calls, NEW then,
           Send(o, from, k, then), op[o].pc \notin {"idle", "locking", "wait"},
           <<k, then>> \in Replies,
           then = "begun" => op[o].pc = "ready",
           then = "admitted" => op[o].pc \in Rotates,
           then \in {"staged", "finalized"} => op[o].pc \in AfterToken
    PROVE  RotationInv'
<1> DEFINE s == op[o].s
           c == [k |-> k, id |-> op[o].id, reply |-> None]
<1>1. /\ op \in [Ops -> OpRecord] /\ op[o] \in OpRecord /\ s \in Sessions
      /\ sess \in [Sessions -> SessRecord] /\ StillLoaded(o) /\ Claimed(o) /\ Paid(o)
      /\ UNCHANGED <<actor, conn, rows, secrets, spends, adv, cat, en, faults>>
      /\ (sess[s].alive => adv = s)
  BY AtWork DEF Send, durable
<1>2. CASE sess[s].client = "open" /\ sess[s].alive
  <2>1. /\ sess' = [sess EXCEPT ![s].call = c]
        /\ op' = [op EXCEPT ![o].pc = "wait", ![o].then = then]
    BY <1>2 DEF Send
  <2>2. then \in {"begun", "admitted", "staged", "finalized", "cleared"} /\ then \in Pcs
        /\ (k = "admit" => then = "admitted") /\ (k = "stage" => then = "staged")
        /\ (k = "finalize" => then = "finalized")
    BY DEF Replies, Pcs
  <2>3. c \in CallRecord /\ c.k = k /\ c.id = op[o].id /\ c.reply = None
    BY <1>1 DEF CallRecord, OpRecord, None
  <2>4. /\ sess' \in [Sessions -> SessRecord] /\ \A t \in Sessions : t # s => sess'[t] = sess[t]
        /\ sess'[s].alive = sess[s].alive /\ sess'[s].call = c
    <3> HIDE DEF c
    <3> QED
      BY <1>1, <2>1, <2>3, CallIsTyped
  <2>5. /\ op' \in [Ops -> OpRecord] /\ \A q \in Ops : q # o => op'[q] = op[q]
        /\ op'[o].pc = "wait" /\ op'[o].s = s /\ op'[o].id = op[o].id
        /\ op'[o].then = then /\ op'[o].loaded = op[o].loaded
    <3>1. "wait" \in Pcs
      BY DEF Pcs
    <3>2. then \in Pcs /\ op \in [Ops -> OpRecord]
          /\ op' = [op EXCEPT ![o].pc = "wait", ![o].then = then]
      BY <1>1, <2>1, <2>2
    <3> HIDE DEF c, s
    <3>3. /\ op' \in [Ops -> OpRecord] /\ \A q \in Ops : q # o => op'[q] = op[q]
          /\ op'[o].pc = "wait" /\ op'[o].s = op[o].s /\ op'[o].id = op[o].id
          /\ op'[o].then = then /\ op'[o].loaded = op[o].loaded
      BY <3>1, <3>2, NewPcThen
    <3> QED BY <3>3 DEF s
  <2> HIDE DEF c
  <2>6. AfterToken \subseteq Rotates /\ "wait" \notin Rotates
    BY DEF AfterToken, Rotates
  <2>7. op[o].pc \in Rotates => Holds(o) /\ Held(o) = op[o].id
    BY DEF Holds, Held, Waits
  <2>8. k \in {"admit", "stage", "finalize"} => op[o].pc \in Rotates
    BY <2>2, <2>6
  <2>9. k \in {"admit", "stage", "finalize"} =>
          op[o].id \in 1..Len(rows) /\ rows[op[o].id].from = op[o].loaded
    BY <1>1, <2>7, <2>8 DEF Claimed
  <2>10. k = "stage" => spends[op[o].loaded] = 1
    BY <1>1, <2>2 DEF Paid, HasPaid
  <2>11. Waiting(o)'
    BY <2>2, <2>3, <2>4, <2>5 DEF Waiting, CallAt, AliveAt
  <2>12. StillLoaded(o)'
    BY <1>1, <1>2, <2>2, <2>3, <2>4, <2>5, <2>6
    DEF StillLoaded, AliveAt, CallAt, Waits, Rotation, None
  <2>13. Admitted(o)'
    BY <2>3, <2>4, <2>5 DEF Admitted, MayAdmit, CallAt, Waits, None
  <2>14. Paid(o)'
    BY <1>1, <2>5 DEF Paid, HasPaid, Waits, AfterToken
  <2>15. Holds(o)' => Holds(o) /\ Held(o)' = Held(o)
    <3> SUFFICES ASSUME Holds(o)' PROVE Holds(o) /\ Held(o)' = Held(o)
      OBVIOUS
    <3>1. then \in {"admitted", "staged", "finalized"}
      BY <2>3, <2>4, <2>5, <2>6 DEF Holds, CallAt, Waits, None
    <3>2. Held(o)' = op[o].id
      BY <3>1, <2>5 DEF Held, Waits
    <3> QED
      BY <3>1, <3>2, <2>6, <2>7
  <2>16. /\ adv = s /\ sess[s].alive
         /\ sess'[s].call.k \in {"admit", "stage", "finalize"} => sess'[s].call.id \in 1..Len(rows)
         /\ sess'[s].call.k = "stage" => spends[rows[sess'[s].call.id].from] = 1
    BY <1>1, <1>2, <2>3, <2>4, <2>9, <2>10
  <2>17. op'[o].pc # "idle" /\ op'[o].pc # "flight"
    BY <2>5
  <2> HIDE DEF s
  <2>18. s = op[o].s
    BY DEF s
  <2> QED
    BY <1>1, <2>4, <2>5, <2>11, <2>12, <2>13, <2>14, <2>15, <2>16, <2>17, <2>18, MoveKeeps
<1>3. CASE ~(sess[s].client = "open" /\ sess[s].alive)
  <2>1. op' = [op EXCEPT ![o].pc = "failed"] /\ sess' = schedule_close(s)
    BY <1>3 DEF Send
  <2>2. /\ op' \in [Ops -> OpRecord] /\ \A q \in Ops : q # o => op'[q] = op[q]
        /\ op'[o].pc = "failed" /\ op'[o].s = s
    BY <1>1, <2>1, NewPc DEF Pcs
  <2> QED
    BY <1>1, <2>1, <2>2, RestKeeps
<1> QED
  BY <1>2, <1>3

LEMMA SendsKeep ==
    ASSUME RotationAssumption, RotationInv, NEW o \in Ops,
           \/ BeginRotation(o) \/ AdmitTokenSend(o) \/ StageRotation(o)
           \/ FinalizeRotation(o) \/ Clear(o)
    PROVE  RotationInv'
<1>1. CASE BeginRotation(o)
  <2>1. Send(o, {"ready"}, "begin", "begun")
    BY <1>1 DEF BeginRotation
  <2>2. op[o].pc = "ready"
    BY <2>1 DEF Send, Rotates, AfterToken
  <2>3. "begin" \in Calls /\ <<"begin", "begun">> \in Replies
    BY DEF Calls, Replies
  <2> QED
    BY <2>1, <2>2, <2>3, SendKeeps
<1>2. CASE AdmitTokenSend(o)
  <2>1. Send(o, {"discovered"}, "admit", "admitted")
    BY <1>2 DEF AdmitTokenSend
  <2>2. op[o].pc = "discovered" /\ op[o].pc \in Rotates
    BY <2>1 DEF Send, Rotates, AfterToken
  <2>3. "admit" \in Calls /\ <<"admit", "admitted">> \in Replies
    BY DEF Calls, Replies
  <2> QED
    BY <2>1, <2>2, <2>3, SendKeeps
<1>3. CASE StageRotation(o)
  <2>1. Send(o, {"identified"}, "stage", "staged")
    BY <1>3 DEF StageRotation
  <2>2. op[o].pc = "identified" /\ op[o].pc \in AfterToken
    BY <2>1 DEF Send, Rotates, AfterToken
  <2>3. "stage" \in Calls /\ <<"stage", "staged">> \in Replies
    BY DEF Calls, Replies
  <2> QED
    BY <2>1, <2>2, <2>3, SendKeeps
<1>4. CASE FinalizeRotation(o)
  <2>1. Send(o, {"checked"}, "finalize", "finalized")
    BY <1>4 DEF FinalizeRotation
  <2>2. op[o].pc = "checked" /\ op[o].pc \in AfterToken
    BY <2>1 DEF Send, Rotates, AfterToken
  <2>3. "finalize" \in Calls /\ <<"finalize", "finalized">> \in Replies
    BY DEF Calls, Replies
  <2> QED
    BY <2>1, <2>2, <2>3, SendKeeps
<1>5. CASE Clear(o)
  <2>1. Send(o, {"locked", "ready", "missing", "pending", "failed"}, "clear", "cleared")
    BY <1>5 DEF Clear
  <2>2. op[o].pc \in {"locked", "ready", "missing", "pending", "failed"}
    BY <2>1 DEF Send, Rotates, AfterToken
  <2>3. "clear" \in Calls /\ <<"clear", "cleared">> \in Replies
    BY DEF Calls, Replies
  <2> QED
    BY <2>1, <2>2, <2>3, SendKeeps
<1> QED
  BY <1>1, <1>2, <1>3, <1>4, <1>5

\* The reply arrives: set_operation, mark_token_admitted.
LEMMA ReceiveKeeps ==
    ASSUME RotationAssumption, RotationInv, NEW o \in Ops, Receive(o)
    PROVE  RotationInv'
<1> DEFINE s == op[o].s
           call == sess[s].call
           pc == IF call.reply = "ok" THEN op[o].then ELSE "failed"
           id == IF call.k = "begin" /\ call.reply = "ok" THEN call.id ELSE op[o].id
           adm == op[o].admitted \/ (call.k = "admit" /\ call.reply = "ok")
           r == [pc |-> pc, s |-> s, id |-> id, admitted |-> adm,
                 then |-> op[o].then, loaded |-> op[o].loaded]
<1>1. /\ op[o].pc = "wait" /\ op \in [Ops -> OpRecord] /\ op[o] \in OpRecord /\ s \in Sessions
      /\ sess \in [Sessions -> SessRecord] /\ sess[s] \in SessRecord
      /\ Waiting(o) /\ StillLoaded(o) /\ Claimed(o) /\ Paid(o) /\ Admitted(o)
      /\ UNCHANGED <<actor, conn, rows, secrets, spends, adv, cat, en, faults>>
      /\ sess[s].alive /\ adv = s /\ call.reply # None
      /\ sess' = [sess EXCEPT ![s].call = NoCall]
      /\ op' = [op EXCEPT ![o].pc = pc, ![o].id = id, ![o].admitted = adm]
  BY AtWork DEF Receive, durable
<1>2. call \in CallRecord
  BY <1>1 DEF SessRecord, CallRecord
<1>3. pc \in Pcs /\ id \in 0..MaxGen /\ adm \in BOOLEAN
  BY <1>1, <1>2 DEF OpRecord, CallRecord, Pcs
<1>4. r \in OpRecord
  <2> HIDE DEF pc, id, adm
  <2> QED
    BY <1>1, <1>3 DEF OpRecord
<1>5. op' = [op EXCEPT ![o] = r]
  <2> HIDE DEF pc, id, adm
  <2> DEFINE one == [op[o] EXCEPT !.pc = pc]
             two == [one EXCEPT !.id = id]
  <2>1. one = [pc |-> pc, s |-> s, id |-> op[o].id, admitted |-> op[o].admitted,
               then |-> op[o].then, loaded |-> op[o].loaded]
    BY <1>1 DEF OpRecord
  <2>2. two = [pc |-> pc, s |-> s, id |-> id, admitted |-> op[o].admitted,
               then |-> op[o].then, loaded |-> op[o].loaded]
    <3> HIDE DEF one
    <3> QED
      BY <2>1
  <2>3. [two EXCEPT !.admitted = adm] = r
    <3> HIDE DEF two
    <3> QED
      BY <2>2
  <2>4. op' = [op EXCEPT ![o] = [two EXCEPT !.admitted = adm]]
    BY <1>1
  <2> QED
    BY <2>3, <2>4
<1>6. op' \in [Ops -> OpRecord] /\ op'[o] = r /\ \A q \in Ops : q # o => op'[q] = op[q]
  <2> HIDE DEF r
  <2> QED
    BY <1>1, <1>4, <1>5, NewRecord
<1>7. /\ op'[o].pc = pc /\ op'[o].s = s /\ op'[o].id = id
      /\ op'[o].then = op[o].then /\ op'[o].loaded = op[o].loaded
  BY <1>6
<1>8. /\ sess' \in [Sessions -> SessRecord] /\ \A t \in Sessions : t # s => sess'[t] = sess[t]
      /\ sess'[s].alive = sess[s].alive /\ sess'[s].call = NoCall
  BY <1>1, NoCallIsTyped, CallIsTyped
<1>9. op[o].then \in {"begun", "admitted", "staged", "finalized", "cleared"}
      /\ <<call.k, op[o].then>> \in Replies
  BY <1>1 DEF Waiting, CallAt, AliveAt
<1>10. /\ call.reply = "ok" => pc = op[o].then
       /\ call.reply # "ok" => pc = "failed"
       /\ op[o].then # "begun" => id = op[o].id
       /\ op[o].then = "begun" /\ call.reply = "ok" => id = call.id
  BY <1>9 DEF Replies
<1> HIDE DEF pc, id, adm, r
<1>11. Waiting(o)' /\ Admitted(o)' /\ StillLoaded(o)' /\ Paid(o)'
       /\ (Holds(o)' => Holds(o) /\ Held(o)' = Held(o))
  <2>1. CASE call.reply # "ok"
    BY <2>1, <1>7, <1>10, RestingIsFine
  <2>2. CASE call.reply = "ok"
    <3>1. op'[o].pc = op[o].then /\ op'[o].pc \in {"begun", "admitted", "staged", "finalized", "cleared"}
      BY <2>2, <1>7, <1>9, <1>10
    <3>2. Waiting(o)'
      BY <3>1, <1>7, <1>8, NoCallIsTyped DEF Waiting, CallAt
    <3>3. Admitted(o)'
      BY <1>1, <2>2, <3>1, <1>7, <1>10 DEF Admitted, MayAdmit, Waits, CallAt
    <3>4. Paid(o)'
      BY <1>1, <3>1, <1>7 DEF Paid, HasPaid, Waits, AfterToken
    <3>5. StillLoaded(o)'
      BY <1>1, <2>2, <3>1, <1>7, <1>8, <1>10
      DEF StillLoaded, AliveAt, CallAt, Waits, Rotates, Rotation, Advanced
    <3>6. Holds(o)' => Holds(o) /\ Held(o)' = Held(o)
      BY <1>1, <2>2, <3>1, <1>7, <1>10 DEF Holds, Held, Waits, CallAt, Rotates
    <3> QED
      BY <3>2, <3>3, <3>4, <3>5, <3>6
  <2> QED
    BY <2>1, <2>2
<1>12. op'[o].pc # "idle" /\ op'[o].pc # "flight"
  BY <1>7, <1>9, <1>10
<1>13. sess'[s].call.k = None
  BY <1>8, NoCallIsTyped
<1>14. None \notin {"admit", "stage", "finalize"}
  BY DEF None
<1> HIDE DEF s, call
<1>15. s = op[o].s
  BY DEF s
<1> QED
  BY <1>1, <1>6, <1>7, <1>8, <1>11, <1>12, <1>13, <1>14, <1>15, MoveKeeps

-----------------------------------------------------------------------------
(* before_request: the fence, and the token that is spent. *)

LEMMA FencedIsTyped ==
    ASSUME sess \in [Sessions -> SessRecord], NEW s \in Sessions, sess' = Fenced(s)
    PROVE  /\ sess' \in [Sessions -> SessRecord] /\ \A t \in Sessions : t # s => sess'[t] = sess[t]
           /\ sess'[s].alive = sess[s].alive /\ sess'[s].call = sess[s].call
           /\ sess'[s].client = sess[s].client /\ (actor => sess'[s].locks = "row")
<1> DEFINE l == IF actor THEN "row" ELSE "none"
<1>1. l \in {"none", "user", "row"} /\ (actor => l = "row")
  OBVIOUS
<1>2. sess' = [sess EXCEPT ![s].intx = TRUE, ![s].locks = l]
  BY DEF Fenced
<1> HIDE DEF l
<1> QED
  BY <1>1, <1>2, FenceIsTyped

\* Two operations that hold a rotation hold different generations.
LEMMA HeldApart ==
    ASSUME RotationInv, NEW o \in Ops, NEW q \in Ops, Holds(o), Holds(q), op[q].loaded = op[o].loaded
    PROVE  q = o
<1>1. Claimed(o) /\ Claimed(q) /\ FromOnce
  BY DEF RotationInv, OpInv, TablesInv
<1>2. /\ Held(o) \in 1..Len(rows) /\ rows[Held(o)].from = op[o].loaded
      /\ Held(q) \in 1..Len(rows) /\ rows[Held(q)].from = op[q].loaded
  BY <1>1 DEF Claimed
<1>3. Held(q) = Held(o)
  BY <1>1, <1>2 DEF FromOnce
<1> QED
  BY <1>1, <1>3 DEF Claimed

\* The token request of an admitted rotation: it is the first of its generation.
LEMMA SpendKeeps ==
    ASSUME RotationAssumption, RotationInv, NEW o \in Ops, op[o].pc = "admitted",
           sess[op[o].s].alive, actor,
           UNCHANGED <<actor, conn, rows, secrets, adv, cat, en, faults>>,
           sess' = Fenced(op[o].s),
           op' = [op EXCEPT ![o].pc = "flight", ![o].then = "answered"],
           spends' = [spends EXCEPT ![op[o].loaded] = @ + 1]
    PROVE  RotationInv'
<1> DEFINE s == op[o].s
           g == op[o].loaded
<1>1. /\ op \in [Ops -> OpRecord] /\ op[o] \in OpRecord /\ s \in Sessions
      /\ sess \in [Sessions -> SessRecord] /\ Waiting(o) /\ StillLoaded(o) /\ Claimed(o) /\ Admitted(o)
      /\ adv = s
  BY AtWork
<1>2. /\ sess' \in [Sessions -> SessRecord] /\ \A t \in Sessions : t # s => sess'[t] = sess[t]
      /\ sess'[s].alive = sess[s].alive /\ sess'[s].call = sess[s].call /\ sess'[s].locks = "row"
  BY <1>1, FencedIsTyped
<1>3. /\ op' \in [Ops -> OpRecord] /\ \A q \in Ops : q # o => op'[q] = op[q]
      /\ op'[o].pc = "flight" /\ op'[o].s = s /\ op'[o].id = op[o].id
      /\ op'[o].then = "answered" /\ op'[o].loaded = g
  <2>1. "flight" \in Pcs /\ "answered" \in Pcs
    BY DEF Pcs
  <2> QED
    BY <1>1, <2>1, NewPcThen
<1>4. /\ conn.st = "rotation_pending" /\ conn.gen = g /\ conn.pending = op[o].id
      /\ op[o].id \in 1..Len(rows) /\ rows[op[o].id].from = g /\ rows[op[o].id].admitted
      /\ spends[g] = 0 /\ Holds(o) /\ sess[s].call.k = None
  <2>1. Rotation(o, op[o].id)
    BY <1>1 DEF StillLoaded, AliveAt, Rotates
  <2>2. Holds(o) /\ Held(o) = op[o].id
    BY DEF Holds, Held, Waits, Rotates
  <2>3. rows[op[o].id].admitted /\ spends[g] = 0
    BY <1>1 DEF Admitted, MayAdmit
  <2>4. sess[s].call.k = None
    BY <1>1 DEF Waiting, CallAt
  <2> QED
    BY <1>1, <2>1, <2>2, <2>3, <2>4 DEF Rotation, Claimed
<1>5. TablesTyped /\ TablesInv
  BY Types DEF RotationInv
<1>6. g \in Gens /\ spends \in [Gens -> Nat]
  BY <1>4, <1>5, RowTyped DEF TablesTyped
<1>7. spends' \in [Gens -> Nat] /\ spends'[g] = 1 /\ \A h \in Gens : h # g => spends'[h] = spends[h]
  BY <1>4, <1>6
<1> HIDE DEF s, g
<1>8. TablesTyped'
  BY <1>5, <1>7 DEF TablesTyped
<1>9. TablesInv'
  <2>1. Consistent' /\ FromOnce' /\ CurrentIsLive'
    BY <1>5 DEF TablesInv, Consistent, FromOnce, CurrentIsLive
  <2>2. Unspent'
    <3>1. \A h \in Gens : h > conn.gen => spends'[h] = 0
      BY <1>4, <1>5, <1>7 DEF TablesInv, Unspent, Gens
    <3>2. \A i \in 1..Len(rows) : ~rows[i].admitted => spends'[rows[i].from] = 0
      <4> SUFFICES ASSUME NEW i \in 1..Len(rows), ~rows[i].admitted PROVE spends'[rows[i].from] = 0
        OBVIOUS
      <4>1. rows[i].from \in Gens /\ spends[rows[i].from] = 0
        BY <1>5, RowTyped DEF TablesInv, Unspent
      <4>2. rows[i].from # g
        BY <1>4, <1>5 DEF TablesInv, FromOnce
      <4> QED
        BY <4>1, <4>2, <1>7
    <3> QED
      BY <3>1, <3>2 DEF Unspent
  <2>3. RefreshSpentOnce'
    <3>1. \A h \in Gens : spends'[h] <= 1
      BY <1>5, <1>7 DEF TablesInv, RefreshSpentOnce
    <3>2. \A h \in Gens \ {1} : secrets[h] # "absent" => spends'[h - 1] = 1
      <4> SUFFICES ASSUME NEW h \in Gens \ {1}, secrets[h] # "absent" PROVE spends'[h - 1] = 1
        OBVIOUS
      <4>1. spends[h - 1] = 1
        BY <1>5 DEF TablesInv, RefreshSpentOnce
      <4>2. h - 1 \in Gens
        BY DEF Gens, RotationAssumption
      <4> QED
        BY <4>1, <4>2, <1>7
    <3> QED
      BY <1>4, <3>1, <3>2 DEF RefreshSpentOnce
  <2> QED
    BY <2>1, <2>2, <2>3 DEF TablesInv
<1>10. /\ DeadIsEmpty' /\ Owned' /\ Covered' /\ Receipt' /\ \A q \in Ops : Fences(q)'
       /\ \A q \in Ops : q # o /\ op[q].pc # "idle" => sess'[op[q].s] = sess[op[q].s]
       /\ adv' # None => sess'[adv'].alive
  <2>1. s = op[o].s
    BY DEF s
  <2> QED
    BY <1>1, <1>2, <1>3, <2>1, MoveShape
<1>11. TypeOK'
  BY <1>2, <1>3, <1>8, <1>10, Types, TypesNext DEF RotationInv
<1>12. CallsNameRows'
  <2> SUFFICES ASSUME NEW t \in Sessions
               PROVE  /\ sess'[t].call.k \in {"admit", "stage", "finalize"} => sess'[t].call.id \in 1..Len(rows)
                      /\ sess'[t].call.k = "stage" => spends'[rows[sess'[t].call.id].from] = 1
    BY DEF CallsNameRows
  <2>1. sess'[t].call = sess[t].call
    BY <1>2
  <2>2. /\ sess[t].call.k \in {"admit", "stage", "finalize"} => sess[t].call.id \in 1..Len(rows)
        /\ sess[t].call.k = "stage" => spends[rows[sess[t].call.id].from] = 1
    BY DEF RotationInv, CallsNameRows
  <2>3. sess[t].call.k = "stage" => rows[sess[t].call.id].from \in Gens
    BY <2>2, <1>5, RowTyped
  <2> QED
    BY <2>1, <2>2, <2>3, <1>4, <1>7
<1>13. \A q \in Ops : q # o =>
         /\ Waiting(q)' /\ StillLoaded(q)' /\ Admitted(q)' /\ Paid(q)'
         /\ Holds(q)' => Holds(q) /\ Held(q)' = Held(q) /\ op'[q].loaded = op[q].loaded
  <2> SUFFICES ASSUME NEW q \in Ops, q # o
               PROVE  /\ Waiting(q)' /\ StillLoaded(q)' /\ Admitted(q)' /\ Paid(q)'
                      /\ Holds(q)' => Holds(q) /\ Held(q)' = Held(q) /\ op'[q].loaded = op[q].loaded
    OBVIOUS
  <2>1. op'[q] = op[q] /\ (op[q].pc # "idle" => sess'[op[q].s] = sess[op[q].s])
    BY <1>3, <1>10
  <2>2. OpInv(q)
    BY DEF RotationInv
  <2>3. CASE op[q].pc = "idle"
    BY <2>1, <2>3, RestingIsFine
  <2>4. CASE op[q].pc # "idle"
    <3>1. CallAt(q)' = CallAt(q) /\ AliveAt(q)' = AliveAt(q)
      BY <2>1, <2>4 DEF CallAt, AliveAt
    <3>2. Waiting(q)' /\ StillLoaded(q)'
      BY <2>1, <2>2, <3>1 DEF OpInv, Waiting, StillLoaded, Waits, Rotation, Advanced
    <3>3. Holds(q)' => Holds(q) /\ Held(q)' = Held(q) /\ op'[q].loaded = op[q].loaded
      BY <2>1, <3>1 DEF Holds, Held, Waits
    <3>4. MayAdmit(q)' <=> MayAdmit(q)
      BY <2>1, <3>1 DEF MayAdmit, Waits
    <3>5. HasPaid(q)' <=> HasPaid(q)
      BY <2>1 DEF HasPaid, Waits
    <3>6. MayAdmit(q) \/ HasPaid(q) => op[q].loaded \in Gens
      <4> SUFFICES ASSUME MayAdmit(q) \/ HasPaid(q) PROVE op[q].loaded \in Gens
        OBVIOUS
      <4>1. Holds(q)
        BY DEF MayAdmit, HasPaid, Holds, Rotates, AfterToken
      <4>2. Held(q) \in 1..Len(rows) /\ rows[Held(q)].from = op[q].loaded
        BY <4>1, <2>2 DEF OpInv, Claimed
      <4> QED
        BY <4>2, <1>5, RowTyped
    <3>7. MayAdmit(q) => op[q].loaded # g
      BY <1>4, HeldApart DEF MayAdmit, Holds, Rotates, g
    <3>8. HasPaid(q) => op[q].loaded # g
      BY <1>4, <2>2 DEF OpInv, Paid
    <3>9. Admitted(q)'
      BY <2>1, <2>2, <3>4, <3>6, <3>7, <1>7 DEF OpInv, Admitted
    <3>10. Paid(q)'
      BY <2>1, <2>2, <3>5, <3>6, <3>8, <1>7 DEF OpInv, Paid
    <3> QED
      BY <3>2, <3>3, <3>9, <3>10
  <2> QED
    BY <2>3, <2>4
<1>14. /\ Waiting(o)' /\ StillLoaded(o)' /\ Admitted(o)' /\ Paid(o)'
       /\ Holds(o)' => Holds(o) /\ Held(o)' = Held(o) /\ op'[o].loaded = op[o].loaded
  <2>1. Waiting(o)' /\ Admitted(o)'
    BY <1>2, <1>3, <1>4 DEF Waiting, CallAt, Admitted, MayAdmit, Waits
  <2>2. StillLoaded(o)'
    BY <1>3, <1>4 DEF StillLoaded, Rotation, Waits
  <2>3. Paid(o)'
    BY <1>3, <1>7 DEF Paid
  <2>4. Held(o)' = Held(o)
    BY <1>3 DEF Held, Waits
  <2> QED
    BY <1>3, <1>4, <2>1, <2>2, <2>3, <2>4 DEF g
<1> QED
  BY <1>5, <1>9, <1>10, <1>11, <1>12, <1>13, <1>14, StepKeeps

\* A request that spends nothing, and one that is refused.
LEMMA FlightKeeps ==
    ASSUME RotationAssumption, RotationInv, NEW o \in Ops, NEW pc, NEW next,
           pc \in {"flight", "failed"},
           next \in {"discovered", "answered", "metadata", "identified"},
           op[o].pc \in Rotates, pc = "flight" => actor,
           pc = "flight" /\ next \in AfterToken => op[o].pc \in AfterToken,
           sess[op[o].s].alive,
           UNCHANGED <<actor, conn, rows, secrets, spends, adv, cat, en, faults>>,
           sess' = Fenced(op[o].s),
           op' \in [Ops -> OpRecord], \A q \in Ops : q # o => op'[q] = op[q],
           op'[o].pc = pc, op'[o].s = op[o].s, op'[o].id = op[o].id,
           op'[o].then = next, op'[o].loaded = op[o].loaded
    PROVE  RotationInv'
<1>1. op[o].pc \notin {"idle", "locking", "wait", "failed"}
  BY DEF Rotates
<1>2. /\ op \in [Ops -> OpRecord] /\ op[o] \in OpRecord /\ op[o].s \in Sessions
      /\ sess \in [Sessions -> SessRecord] /\ Waiting(o) /\ StillLoaded(o) /\ Paid(o)
  BY <1>1, AtWork
<1>3. /\ sess' \in [Sessions -> SessRecord] /\ \A t \in Sessions : t # op[o].s => sess'[t] = sess[t]
      /\ sess'[op[o].s].alive = sess[op[o].s].alive /\ sess'[op[o].s].call = sess[op[o].s].call
      /\ (actor => sess'[op[o].s].locks = "row")
  BY <1>2, FencedIsTyped
<1>4. /\ Waiting(o)' /\ StillLoaded(o)' /\ Admitted(o)' /\ Paid(o)'
      /\ Holds(o)' => Holds(o) /\ Held(o)' = Held(o) /\ op'[o].loaded = op[o].loaded
  <2>1. CASE pc = "failed"
    BY <2>1, RestingIsFine
  <2>2. CASE pc = "flight"
    <3>1. Waiting(o)' /\ Admitted(o)'
      BY <1>1, <1>2, <1>3, <2>2 DEF Waiting, CallAt, Admitted, MayAdmit, Waits
    <3>2. StillLoaded(o)'
      BY <1>1, <1>2, <1>3, <2>2 DEF StillLoaded, AliveAt, Rotation, Waits
    <3>3. Paid(o)'
      BY <1>2, <2>2 DEF Paid, HasPaid, Waits, AfterToken
    <3>4. Holds(o) /\ Held(o)' = Held(o)
      BY <1>1, <2>2 DEF Holds, Held, Waits
    <3> QED
      BY <3>1, <3>2, <3>3, <3>4
  <2> QED
    BY <2>1, <2>2
<1>5. op'[o].pc # "idle" /\ (op'[o].pc = "flight" => actor /\ sess'[op[o].s].locks = "row")
  BY <1>3
<1>6. op[o].pc # "idle" /\ op[o].pc # "locking"
  BY <1>1
<1> QED
  BY <1>2, <1>3, <1>4, <1>5, <1>6, MoveKeepsCall

LEMMA RequestKeeps ==
    ASSUME RotationAssumption, RotationInv, NEW o \in Ops, before_request(o)
    PROVE  RotationInv'
<1> DEFINE s == op[o].s
<1>1. PICK r \in Requests :
        /\ op[o].pc = r[1]
        /\ IF ~Usable(s)
           THEN /\ op' = [op EXCEPT ![o].pc = "failed"]
                /\ sess' = IF sess[s].alive THEN sess ELSE schedule_close(s)
                /\ UNCHANGED spends
           ELSE /\ sess' = Fenced(s)
                /\ op' = [op EXCEPT ![o].pc = IF actor /\ Permitted(o)
                                              THEN "flight" ELSE "failed",
                                    ![o].then = r[2]]
                /\ spends' = IF actor /\ Permitted(o) /\ SpendsToken(o)
                             THEN [spends EXCEPT ![op[o].loaded] = @ + 1]
                             ELSE spends
        /\ UNCHANGED <<actor, conn, rows, secrets, adv, cat, en, faults>>
  BY DEF before_request, durable
<1>2. <<op[o].pc, r[2]>> \in Requests /\ op[o].pc \in Rotates /\ op[o].pc # "flight"
      /\ op[o].pc \notin {"idle", "locking", "wait", "failed"}
      /\ r[2] \in {"discovered", "answered", "metadata", "identified"} /\ r[2] \in Pcs
      /\ (op[o].pc = "admitted" => r[2] = "answered")
      /\ (op[o].pc # "admitted" /\ r[2] \in AfterToken => op[o].pc \in AfterToken)
  BY <1>1 DEF Requests, Rotates, Pcs, AfterToken
<1>3. /\ op \in [Ops -> OpRecord] /\ op[o] \in OpRecord /\ s \in Sessions
      /\ sess \in [Sessions -> SessRecord] /\ Waiting(o) /\ StillLoaded(o) /\ Claimed(o) /\ Paid(o)
      /\ (~sess[s].alive => sess[s].locks = "none")
  BY <1>2, AtWork
<1>4. CASE ~Usable(s)
  <2>1. /\ op' = [op EXCEPT ![o].pc = "failed"] /\ (sess' = sess \/ sess' = schedule_close(s))
        /\ spends' = spends
    BY <1>1, <1>4
  <2>2. /\ op' \in [Ops -> OpRecord] /\ \A q \in Ops : q # o => op'[q] = op[q]
        /\ op'[o].pc = "failed" /\ op'[o].s = s
    BY <1>3, <2>1, NewPc DEF Pcs
  <2> QED
    BY <1>1, <1>2, <1>3, <2>1, <2>2, RestKeeps
<1>5. CASE Usable(s) /\ actor /\ Permitted(o) /\ op[o].pc = "admitted"
  <2>1. sess[s].alive
    BY <1>5 DEF Usable
  <2> QED
    BY <1>1, <1>2, <1>5, <2>1, SpendKeeps DEF SpendsToken
<1>6. CASE Usable(s) /\ ~(actor /\ Permitted(o) /\ op[o].pc = "admitted")
  <2> DEFINE next == r[2]
  <2>1. PICK pc \in {"flight", "failed"} :
          /\ pc = "flight" => actor /\ op[o].pc # "admitted"
          /\ op' = [op EXCEPT ![o].pc = pc, ![o].then = next]
          /\ sess' = Fenced(s) /\ spends' = spends
    BY <1>1, <1>6 DEF SpendsToken
  <2>2. /\ next \in {"discovered", "answered", "metadata", "identified"}
        /\ pc = "flight" /\ next \in AfterToken => op[o].pc \in AfterToken
    BY <1>2, <2>1
  <2>3. UNCHANGED <<actor, conn, rows, secrets, spends, adv, cat, en, faults>> /\ sess[s].alive
    BY <1>1, <1>6, <2>1 DEF Usable
  <2>4. op \in [Ops -> OpRecord] /\ pc \in Pcs /\ next \in Pcs
    BY <1>3, <2>2 DEF Pcs
  <2> HIDE DEF next
  <2>5. /\ op' \in [Ops -> OpRecord] /\ \A q \in Ops : q # o => op'[q] = op[q]
        /\ op'[o].pc = pc /\ op'[o].s = op[o].s /\ op'[o].id = op[o].id
        /\ op'[o].then = next /\ op'[o].loaded = op[o].loaded
    <3>1. op' = [op EXCEPT ![o].pc = pc, ![o].then = next]
      BY <2>1
    <3>2. op'[o].then = next
      BY <2>4, <3>1 DEF OpRecord
    <3>3. /\ op' \in [Ops -> OpRecord] /\ \A q \in Ops : q # o => op'[q] = op[q]
          /\ op'[o].pc = pc /\ op'[o].s = op[o].s /\ op'[o].id = op[o].id
          /\ op'[o].loaded = op[o].loaded
      BY <2>4, <3>1, NewPcThen
    <3> QED
      BY <3>2, <3>3
  <2>6. (pc = "flight" => actor) /\ sess' = Fenced(s)
    BY <2>1
  <2> QED
    BY <1>2, <2>2, <2>3, <2>5, <2>6, FlightKeeps
<1> QED
  BY <1>4, <1>5, <1>6

-----------------------------------------------------------------------------
(* Steps that leave the tables and the calls. *)

\* Sessions that close or give up their locks.
LEMMA SessionKeeps ==
    ASSUME RotationInv, UNCHANGED <<actor, conn, rows, secrets, spends, adv, op, faults>>,
           sess' \in [Sessions -> SessRecord], cat' \in [Ops -> CatRecord], en' \in EnRecord,
           \A t \in Sessions : /\ sess'[t].alive = sess[t].alive /\ sess'[t].call = sess[t].call
                               /\ ~sess[t].alive => sess'[t].locks = "none",
           Owned', Receipt',
           \A q \in Ops \ Overlap :
             /\ op[q].pc # "idle" => sess'[op[q].s].locks = sess[op[q].s].locks
             /\ \/ cat'[q].pc = "idle"
                \/ cat'[q] = cat[q] /\ sess'[cat[q].s].locks = sess[cat[q].s].locks
    PROVE  RotationInv'
<1>1. \A q \in Ops : op[q].pc # "idle" => op[q].s \in Sessions
  BY AtWork
<1>2. TypeOK'
  <2>1. TablesTyped'
    BY Types DEF RotationInv, TablesTyped
  <2>2. adv' # None => sess'[adv'].alive
    BY Types DEF RotationInv
  <2> QED
    BY <2>1, <2>2, Types, TypesNext DEF RotationInv
<1>3. DeadIsEmpty'
  BY DEF RotationInv, DeadIsEmpty
<1>4. Covered'
  BY <1>1 DEF RotationInv, Covered, AliveAt
<1>5. TablesInv'
  BY DEF RotationInv, TablesInv, Consistent, FromOnce, Unspent, CurrentIsLive, RefreshSpentOnce
<1>6. CallsNameRows'
  BY DEF RotationInv, CallsNameRows
<1>7. \A q \in Ops : /\ Waiting(q)' /\ StillLoaded(q)' /\ Admitted(q)' /\ Paid(q)'
                     /\ Holds(q)' => Holds(q) /\ Held(q)' = Held(q)
  <2> SUFFICES ASSUME NEW q \in Ops
               PROVE  /\ Waiting(q)' /\ StillLoaded(q)' /\ Admitted(q)' /\ Paid(q)'
                      /\ Holds(q)' => Holds(q) /\ Held(q)' = Held(q)
    OBVIOUS
  <2>1. op[q].pc # "idle" => /\ sess'[op[q].s].call = sess[op[q].s].call
                             /\ sess'[op[q].s].alive = sess[op[q].s].alive
    BY <1>1
  <2> QED
    BY <2>1, Undisturbed DEF RotationInv
<1>8. \A q \in Ops : Fences(q)'
  <2> SUFFICES ASSUME NEW q \in Ops, q \notin Overlap PROVE Fences(q)'
    BY DEF Fences
  <2>1. Fences(q)
    BY DEF RotationInv
  <2>2. cat[q].pc = "flight" => cat[q].s \in Sessions
    BY Types DEF RotationInv, Owned, CatRecord
  <2>3. cat'[q].pc = "flight" => cat'[q] = cat[q] /\ sess'[cat[q].s].locks = sess[cat[q].s].locks
    OBVIOUS
  <2>4. op[q].pc = "flight" => sess'[op[q].s].locks = sess[op[q].s].locks
    OBVIOUS
  <2> QED
    BY <1>1, <2>1, <2>2, <2>3, <2>4 DEF Fences, AliveAt
<1> QED
  BY <1>2, <1>3, <1>4, <1>5, <1>6, <1>7, <1>8, StepKeeps

LEMMA UsersTyped ==
    ASSUME RotationInv
    PROVE  /\ sess \in [Sessions -> SessRecord] /\ op \in [Ops -> OpRecord]
           /\ cat \in [Ops -> CatRecord] /\ en \in EnRecord /\ Owned
           /\ en.s # None => en.s \in Sessions
           /\ \A q \in Ops : /\ cat[q].pc = "flight" <=> cat[q].s # None
                             /\ cat[q].pc = "flight" => cat[q].s \in Sessions
           /\ \A t \in Sessions : ~sess[t].alive => sess[t].locks = "none"
           /\ en.pc = "receipt" => conn.st # "absent"
  BY Types DEF RotationInv, Owned, CatRecord, EnRecord, DeadIsEmpty, Receipt

\* The session of a request that is over.
LEMMA LeaveIsTyped ==
    ASSUME sess \in [Sessions -> SessRecord], NEW s \in Sessions,
           sess' = [sess EXCEPT ![s].client = "none", ![s].locks = "none"]
    PROVE  /\ sess' \in [Sessions -> SessRecord] /\ \A t \in Sessions : t # s => sess'[t] = sess[t]
           /\ sess'[s].alive = sess[s].alive /\ sess'[s].call = sess[s].call /\ sess'[s].locks = "none"
<1> DEFINE r == [client |-> "none", alive |-> sess[s].alive, intx |-> sess[s].intx, locks |-> "none",
                 call |-> sess[s].call]
<1>1. sess[s] \in SessRecord
  OBVIOUS
<1>2. r \in SessRecord
  BY <1>1 DEF SessRecord
<1>3. sess' = [sess EXCEPT ![s] = r]
  <2> DEFINE one == [sess[s] EXCEPT !.client = "none"]
  <2>1. one = [client |-> "none", alive |-> sess[s].alive, intx |-> sess[s].intx,
               locks |-> sess[s].locks, call |-> sess[s].call]
    BY <1>1 DEF SessRecord
  <2>2. [one EXCEPT !.locks = "none"] = r
    <3> HIDE DEF one
    <3> QED
      BY <2>1
  <2>3. sess' = [sess EXCEPT ![s] = [one EXCEPT !.locks = "none"]]
    OBVIOUS
  <2> QED
    BY <2>2, <2>3
<1> QED
  BY <1>2, <1>3

LEMMA FinishIsTyped ==
    ASSUME sess \in [Sessions -> SessRecord], NEW s \in Sessions, NEW c, c \in {"none", "open"},
           sess' = [sess EXCEPT ![s].intx = FALSE, ![s].locks = "none", ![s].client = c]
    PROVE  /\ sess' \in [Sessions -> SessRecord] /\ \A t \in Sessions : t # s => sess'[t] = sess[t]
           /\ sess'[s].alive = sess[s].alive /\ sess'[s].call = sess[s].call /\ sess'[s].locks = "none"
<1>1. sess[s] \in SessRecord
  OBVIOUS
<1>2. \A t \in Sessions : t # s => sess'[t] = sess[t]
  OBVIOUS
<1>3. sess'[s].alive = sess[s].alive /\ sess'[s].call = sess[s].call
      /\ sess'[s].locks = "none" /\ sess'[s].intx = FALSE /\ sess'[s].client = c
  BY <1>1 DEF SessRecord
<1>4. sess'[s] \in SessRecord
  BY <1>1 DEF SessRecord
<1> QED
  BY <1>2, <1>3, <1>4

LEMMA EnrollReplyKeeps ==
    ASSUME RotationAssumption, RotationInv, EnrollReply
    PROVE  RotationInv'
<1> DEFINE s == en.s
<1>1. /\ en.pc \in {"flight1", "flight2"} /\ s # None /\ s \in Sessions
      /\ sess' = [sess EXCEPT ![s].client = "none", ![s].locks = "none"]
      /\ UNCHANGED <<actor, conn, rows, secrets, spends, adv, op, cat, faults>>
  BY UsersTyped DEF EnrollReply, durable, Owned
<1>2. /\ sess' \in [Sessions -> SessRecord] /\ \A t \in Sessions : t # s => sess'[t] = sess[t]
      /\ sess'[s].alive = sess[s].alive /\ sess'[s].call = sess[s].call
      /\ sess'[s].locks = "none"
  BY <1>1, UsersTyped, LeaveIsTyped
<1>3. en' \in EnRecord /\ en'.s = None /\ en'.pc \in {"metadata", "profile", "failed"}
  BY DEF EnrollReply, EnRecord
<1>4. Owned'
  BY <1>1, <1>3, UsersTyped DEF Owned
<1>5. \A q \in Ops : op[q].s # s /\ cat[q].s # s
  BY <1>1, UsersTyped DEF Owned
<1>6. Receipt'
  BY <1>3 DEF Receipt
<1>7. \A q \in Ops : /\ op[q].pc # "idle" => sess'[op[q].s].locks = sess[op[q].s].locks
                     /\ \/ cat'[q].pc = "idle"
                        \/ cat'[q] = cat[q] /\ sess'[cat[q].s].locks = sess[cat[q].s].locks
  BY <1>1, <1>2, <1>5, AtWork, UsersTyped DEF CatRecord
<1>8. \A t \in Sessions : /\ sess'[t].alive = sess[t].alive /\ sess'[t].call = sess[t].call
                          /\ ~sess[t].alive => sess'[t].locks = "none"
  BY <1>2, UsersTyped
<1> QED
  BY <1>1, <1>2, <1>3, <1>4, <1>6, <1>7, <1>8, UsersTyped, SessionKeeps

\* EnrollCommitted and EnrollGivesUp: the session is closed, or there is none.
LEMMA EnrollClosesKeeps ==
    ASSUME RotationAssumption, RotationInv, EnrollCommitted \/ EnrollGivesUp
    PROVE  RotationInv'
<1>1. /\ UNCHANGED <<actor, conn, rows, secrets, spends, adv, op, cat, faults>>
      /\ en' \in EnRecord /\ en'.s = None /\ en'.pc \in {"verify", "failed"}
  BY DEF EnrollCommitted, EnrollGivesUp, durable, EnRecord
<1>2. sess' = sess \/ (en.s \in Sessions /\ sess' = schedule_close(en.s))
  <2>1. en.pc = "insert" => en.s # None
    BY UsersTyped DEF Owned
  <2>2. en.s # None => en.s \in Sessions
    BY UsersTyped
  <2>3. CASE EnrollCommitted
    BY <2>1, <2>2, <2>3 DEF EnrollCommitted
  <2>4. CASE EnrollGivesUp
    BY <2>2, <2>4 DEF EnrollGivesUp
  <2> QED
    BY <2>3, <2>4
<1>3. /\ sess' \in [Sessions -> SessRecord]
      /\ \A t \in Sessions : /\ sess'[t].alive = sess[t].alive /\ sess'[t].call = sess[t].call
                             /\ sess'[t].locks = sess[t].locks
  BY <1>2, UsersTyped, CloseIsTyped
<1>4. Owned'
  BY <1>1, UsersTyped DEF Owned
<1>5. Receipt'
  BY <1>1 DEF Receipt
<1>6. \A q \in Ops : /\ op[q].pc # "idle" => sess'[op[q].s].locks = sess[op[q].s].locks
                     /\ \/ cat'[q].pc = "idle"
                        \/ cat'[q] = cat[q] /\ sess'[cat[q].s].locks = sess[cat[q].s].locks
  BY <1>1, <1>3, AtWork, UsersTyped DEF CatRecord
<1>7. \A t \in Sessions : /\ sess'[t].alive = sess[t].alive /\ sess'[t].call = sess[t].call
                          /\ ~sess[t].alive => sess'[t].locks = "none"
  BY <1>3, UsersTyped
<1> QED
  BY <1>1, <1>3, <1>4, <1>5, <1>6, <1>7, UsersTyped, SessionKeeps

\* A step of the catalogue request of one operation, on a session of its own or on the one
\* of the lock.
LEMMA CatalogueStepKeeps ==
    ASSUME RotationAssumption, RotationInv, NEW o \in Ops, NEW s \in Sessions,
           s = op[o].s \/ s = cat[o].s,
           UNCHANGED <<actor, conn, rows, secrets, spends, adv, op, en, faults>>,
           sess' \in [Sessions -> SessRecord],
           \A t \in Sessions : t # s => sess'[t] = sess[t],
           sess'[s].alive = sess[s].alive, sess'[s].call = sess[s].call,
           ~sess[s].alive => sess'[s].locks = "none",
           cat' \in [Ops -> CatRecord], \A q \in Ops : q # o => cat'[q] = cat[q],
           \/ cat'[o].pc = "idle" /\ cat'[o].s = None /\ (o \notin Overlap => op[o].pc = "idle")
           \/ o \in Overlap /\ (cat'[o] = cat[o] \/ (cat'[o].pc = "flight" /\ cat'[o].s = s))
    PROVE  RotationInv'
<1>1. s # None
  BY DEF RotationAssumption, None
<1>2. \A q \in Ops : q # o => op[q].s # s /\ cat[q].s # s
  BY <1>1, UsersTyped DEF Owned
<1>3. en.s # s
  BY <1>1, UsersTyped DEF Owned
<1>4. Owned'
  BY <1>1, <1>2, <1>3, UsersTyped DEF Owned
<1>5. Receipt'
  BY UsersTyped DEF Receipt
<1>6. \A q \in Ops \ Overlap :
        /\ op[q].pc # "idle" => sess'[op[q].s].locks = sess[op[q].s].locks
        /\ \/ cat'[q].pc = "idle"
           \/ cat'[q] = cat[q] /\ sess'[cat[q].s].locks = sess[cat[q].s].locks
  <2> SUFFICES ASSUME NEW q \in Ops, q \notin Overlap
               PROVE  /\ op[q].pc # "idle" => sess'[op[q].s].locks = sess[op[q].s].locks
                      /\ \/ cat'[q].pc = "idle"
                         \/ cat'[q] = cat[q] /\ sess'[cat[q].s].locks = sess[cat[q].s].locks
    OBVIOUS
  <2>1. CASE q = o
    BY <2>1
  <2>2. CASE q # o
    BY <2>2, <1>2, AtWork, UsersTyped DEF CatRecord
  <2> QED
    BY <2>1, <2>2
<1>7. \A t \in Sessions : /\ sess'[t].alive = sess[t].alive /\ sess'[t].call = sess[t].call
                          /\ ~sess[t].alive => sess'[t].locks = "none"
  BY UsersTyped
<1> QED
  BY <1>4, <1>5, <1>6, <1>7, UsersTyped, SessionKeeps

LEMMA NewCat ==
    ASSUME cat \in [Ops -> CatRecord], NEW o \in Ops, NEW r \in CatRecord, cat' = [cat EXCEPT ![o] = r]
    PROVE  cat' \in [Ops -> CatRecord] /\ cat'[o] = r /\ \A q \in Ops : q # o => cat'[q] = cat[q]
  OBVIOUS

LEMMA NoCatIsTyped == [pc |-> "idle", s |-> None] \in CatRecord
  BY DEF CatRecord

LEMMA CatalogueUnderLockKeeps ==
    ASSUME RotationAssumption, RotationInv, NEW o \in Ops, CatalogueUnderLock(o)
    PROVE  RotationInv'
<1> DEFINE s == op[o].s
<1>1. /\ o \in Overlap /\ op[o].pc # "idle" /\ sess' = Fenced(s) /\ sess[s].alive
      /\ UNCHANGED <<actor, conn, rows, secrets, spends, adv, op, en, faults>>
  BY DEF CatalogueUnderLock, Active, Usable, durable
<1>2. s \in Sessions
  BY <1>1, AtWork
<1>3. /\ sess' \in [Sessions -> SessRecord] /\ \A t \in Sessions : t # s => sess'[t] = sess[t]
      /\ sess'[s].alive = sess[s].alive /\ sess'[s].call = sess[s].call
  BY <1>1, <1>2, UsersTyped, FencedIsTyped
<1>4. /\ cat' \in [Ops -> CatRecord] /\ \A q \in Ops : q # o => cat'[q] = cat[q]
      /\ cat'[o] = cat[o] \/ (cat'[o].pc = "flight" /\ cat'[o].s = s)
  <2>1. [pc |-> "flight", s |-> s] \in CatRecord
    BY <1>2 DEF CatRecord
  <2>2. cat' = [cat EXCEPT ![o] = [pc |-> "flight", s |-> s]] \/ cat' = cat
    BY UsersTyped DEF CatalogueUnderLock
  <2>3. CASE cat' = [cat EXCEPT ![o] = [pc |-> "flight", s |-> s]]
    BY <2>1, <2>3, UsersTyped, NewCat
  <2>4. CASE cat' = cat
    <3>1. cat \in [Ops -> CatRecord]
      BY UsersTyped
    <3> QED
      BY <2>4, <3>1
  <2> QED
    BY <2>2, <2>3, <2>4
<1> QED
  BY <1>1, <1>2, <1>3, <1>4, CatalogueStepKeeps

LEMMA CatalogueEndsKeeps ==
    ASSUME RotationAssumption, RotationInv, NEW o \in Ops, CatalogueReply(o) \/ CatalogueLost(o)
    PROVE  RotationInv'
<1> DEFINE s == cat[o].s
<1>1. /\ cat[o].pc = "flight" /\ cat' = [cat EXCEPT ![o] = [pc |-> "idle", s |-> None]]
      /\ UNCHANGED <<actor, conn, rows, secrets, spends, adv, op, en, faults>>
  BY DEF CatalogueReply, CatalogueLost, durable
<1>2. s \in Sessions /\ sess \in [Sessions -> SessRecord] /\ (~sess[s].alive => sess[s].locks = "none")
  BY <1>1, UsersTyped
<1>3. /\ sess' \in [Sessions -> SessRecord] /\ \A t \in Sessions : t # s => sess'[t] = sess[t]
      /\ sess'[s].alive = sess[s].alive /\ sess'[s].call = sess[s].call
      /\ ~sess[s].alive => sess'[s].locks = "none"
  <2>1. \/ sess' = schedule_close(s)
        \/ sess' = [sess EXCEPT ![s].intx = FALSE, ![s].locks = "none",
                                ![s].client = IF op[o].s = s THEN "open" ELSE "none"]
    BY DEF CatalogueReply, CatalogueLost
  <2>2. CASE sess' = schedule_close(s)
    BY <1>2, <2>2, CloseIsTyped
  <2>3. CASE sess' = [sess EXCEPT ![s].intx = FALSE, ![s].locks = "none",
                                  ![s].client = IF op[o].s = s THEN "open" ELSE "none"]
    <3> DEFINE c == IF op[o].s = s THEN "open" ELSE "none"
    <3>1. c \in {"none", "open"} /\ sess' = [sess EXCEPT ![s].intx = FALSE, ![s].locks = "none", ![s].client = c]
      BY <2>3
    <3> HIDE DEF c
    <3> QED
      BY <1>2, <3>1, FinishIsTyped
  <2> QED
    BY <2>1, <2>2, <2>3
<1>4. /\ cat' \in [Ops -> CatRecord] /\ \A q \in Ops : q # o => cat'[q] = cat[q]
      /\ cat'[o].pc = "idle" /\ cat'[o].s = None
  BY <1>1, UsersTyped, NewCat, NoCatIsTyped
<1>5. o \notin Overlap => op[o].pc = "idle"
  BY <1>1 DEF RotationInv, Fences
<1> QED
  BY <1>1, <1>2, <1>3, <1>4, <1>5, CatalogueStepKeeps

-----------------------------------------------------------------------------
(* Sessions that are opened and sessions that end. *)

\* A permit that is free has no user; the session it opens has at most an enrollment.
LEMMA AcquireKeeps ==
    ASSUME RotationAssumption, RotationInv, NEW s \in Sessions, NEW r \in SessRecord,
           acquire(s, r), r.alive, r.call.k \in {None, "enroll"},
           UNCHANGED <<actor, conn, rows, secrets, adv, spends, faults>>,
           op' \in [Ops -> OpRecord], cat' \in [Ops -> CatRecord], en' \in EnRecord,
           \A q \in Ops : \/ op'[q] = op[q]
                          \/ /\ op[q].pc = "idle" /\ op'[q].pc = "locking" /\ op'[q].s = s
                             /\ r.call.k = None /\ conn.st # "absent",
           Owned', Receipt',
           \A q \in Ops \ Overlap :
             \/ cat'[q] = cat[q] /\ (cat[q].pc = "flight" => op'[q] = op[q])
             \/ /\ cat'[q].s = s /\ r.locks = "row" /\ r.call.k = None
                /\ actor /\ conn.st = "ready" /\ op'[q] = op[q] /\ op[q].pc = "idle"
    PROVE  RotationInv'
<1>1. /\ sess' \in [Sessions -> SessRecord] /\ sess'[s] = r
      /\ \A t \in Sessions : t # s => sess'[t] = sess[t]
  BY UsersTyped DEF acquire
<1>2. /\ ~sess[s].alive /\ en.s # s
      /\ \A q \in Ops : op[q].s # s /\ cat[q].s # s
  BY DEF acquire, FreeSession
<1>3. \A q \in Ops : op[q].pc # "idle" => op[q].s \in Sessions /\ sess'[op[q].s] = sess[op[q].s]
  BY <1>1, <1>2, AtWork
<1>4. adv # s /\ (adv' # None => sess'[adv'].alive) /\ s # None
  BY <1>1, <1>2, Types DEF RotationInv, RotationAssumption, None
<1>5. TypeOK'
  <2>1. TablesTyped'
    BY Types DEF RotationInv, TablesTyped
  <2> QED
    BY <1>1, <1>4, <2>1, Types, TypesNext DEF RotationInv
<1>6. DeadIsEmpty'
  BY <1>1 DEF RotationInv, DeadIsEmpty
<1>7. Covered'
  <2>1. \A q \in Ops : op'[q].pc \notin {"idle", "locking"} /\ sess'[op'[q].s].alive => adv = op'[q].s
    BY <1>3 DEF RotationInv, Covered, AliveAt
  <2>2. \A t \in Sessions : sess'[t].call.k \notin {None, "enroll"} => adv = t
    BY <1>1 DEF RotationInv, Covered
  <2>3. \A q \in Ops : op'[q].pc # "idle" => conn.st # "absent"
    BY DEF RotationInv, Covered
  <2> QED
    BY <2>1, <2>2, <2>3 DEF Covered, AliveAt
<1>8. TablesInv'
  BY DEF RotationInv, TablesInv, Consistent, FromOnce, Unspent, CurrentIsLive, RefreshSpentOnce
<1>9. CallsNameRows'
  BY <1>1 DEF RotationInv, CallsNameRows, None
<1>10. \A q \in Ops : /\ Waiting(q)' /\ StillLoaded(q)' /\ Admitted(q)' /\ Paid(q)'
                      /\ Holds(q)' => Holds(q) /\ Held(q)' = Held(q) /\ op'[q].loaded = op[q].loaded
  <2> SUFFICES ASSUME NEW q \in Ops
               PROVE  /\ Waiting(q)' /\ StillLoaded(q)' /\ Admitted(q)' /\ Paid(q)'
                      /\ Holds(q)' => Holds(q) /\ Held(q)' = Held(q) /\ op'[q].loaded = op[q].loaded
    OBVIOUS
  <2>1. CASE op'[q] = op[q]
    BY <1>3, <2>1, Undisturbed DEF RotationInv
  <2>2. CASE op'[q].pc = "locking" /\ op'[q].s = s /\ r.call.k = None
    <3>1. Waiting(q)'
      BY <1>1, <2>2 DEF Waiting, CallAt
    <3>2. StillLoaded(q)' /\ Admitted(q)' /\ Paid(q)' /\ ~Holds(q)'
      BY <2>2 DEF StillLoaded, Admitted, MayAdmit, Paid, HasPaid, Holds, Waits, Rotates, AfterToken
    <3> QED
      BY <3>1, <3>2
  <2> QED
    BY <2>1, <2>2
<1>11. \A q \in Ops : Fences(q)'
  <2> SUFFICES ASSUME NEW q \in Ops, q \notin Overlap PROVE Fences(q)'
    BY DEF Fences
  <2>1. Fences(q)
    BY DEF RotationInv
  <2>2. op'[q].pc = "flight" /\ sess'[op'[q].s].alive => sess'[op'[q].s].locks = "row" /\ actor
    BY <1>3, <2>1 DEF Fences, AliveAt
  <2>3. CASE cat'[q] = cat[q] /\ (cat[q].pc = "flight" => op'[q] = op[q])
    <3>1. cat[q].pc = "flight" => cat[q].s \in Sessions /\ sess'[cat[q].s] = sess[cat[q].s]
      BY <1>1, <1>2, UsersTyped
    <3> QED
      BY <2>1, <2>2, <2>3, <3>1 DEF Fences, AliveAt
  <2>4. CASE /\ cat'[q].s = s /\ r.locks = "row" /\ r.call.k = None
             /\ actor /\ conn.st = "ready" /\ op'[q] = op[q] /\ op[q].pc = "idle"
    BY <1>1, <2>2, <2>4 DEF Fences, AliveAt
  <2> QED
    BY <2>3, <2>4
<1> QED
  BY <1>5, <1>6, <1>7, <1>8, <1>9, <1>10, <1>11, StepKeeps

\* What an assignment to one field of a record leaves of it.
LEMMA SetClient ==
    ASSUME NEW x, x \in SessRecord, NEW c, c \in {"none", "open"}
    PROVE  /\ [x EXCEPT !.client = c] \in SessRecord
           /\ [x EXCEPT !.client = c].alive = x.alive /\ [x EXCEPT !.client = c].call = x.call
           /\ [x EXCEPT !.client = c].locks = x.locks
  BY DEF SessRecord

LEMMA SetAlive ==
    ASSUME NEW x, x \in SessRecord
    PROVE  /\ [x EXCEPT !.alive = TRUE] \in SessRecord
           /\ [x EXCEPT !.alive = TRUE].alive /\ [x EXCEPT !.alive = TRUE].call = x.call
  BY DEF SessRecord

LEMMA SetFence ==
    ASSUME NEW x, x \in SessRecord, NEW l, l \in {"none", "user", "row"}
    PROVE  /\ [x EXCEPT !.intx = TRUE, !.locks = l] \in SessRecord
           /\ [x EXCEPT !.intx = TRUE, !.locks = l].alive = x.alive
           /\ [x EXCEPT !.intx = TRUE, !.locks = l].call = x.call
           /\ [x EXCEPT !.intx = TRUE, !.locks = l].locks = l
<1> DEFINE y == [x EXCEPT !.intx = TRUE]
<1>1. y \in SessRecord /\ y.alive = x.alive /\ y.call = x.call
  BY DEF SessRecord
<1> HIDE DEF y
<1>2. /\ [y EXCEPT !.locks = l] \in SessRecord /\ [y EXCEPT !.locks = l].alive = y.alive
      /\ [y EXCEPT !.locks = l].call = y.call /\ [y EXCEPT !.locks = l].locks = l
  BY <1>1 DEF SessRecord
<1> QED
  BY <1>1, <1>2 DEF y

LEMMA SetCall ==
    ASSUME NEW x, x \in SessRecord, NEW c, c \in CallRecord
    PROVE  /\ [x EXCEPT !.call = c] \in SessRecord
           /\ [x EXCEPT !.call = c].alive = x.alive /\ [x EXCEPT !.call = c].call = c
  BY DEF SessRecord, CallRecord

LEMMA NoSessIs ==
    ASSUME RotationAssumption
    PROVE  NoSess \in SessRecord /\ ~NoSess.alive /\ NoSess.locks = "none" /\ NoSess.call = NoCall
  BY DEF NoSess, SessRecord, NoCall, RotationAssumption

LEMMA OpenedIs ==
    ASSUME RotationAssumption
    PROVE  Opened \in SessRecord /\ Opened.alive /\ Opened.call = NoCall /\ NoCall.k = None
<1> DEFINE one == [NoSess EXCEPT !.client = "open"]
<1>1. one \in SessRecord /\ one.call = NoCall
  BY NoSessIs, SetClient
<1>2. Opened = [one EXCEPT !.alive = TRUE]
  BY DEF Opened
<1> HIDE DEF one
<1>3. /\ [one EXCEPT !.alive = TRUE] \in SessRecord /\ [one EXCEPT !.alive = TRUE].alive
      /\ [one EXCEPT !.alive = TRUE].call = NoCall
  BY <1>1, SetAlive
<1> QED
  BY <1>2, <1>3, NoCallIsTyped

LEMMA LockingIs ==
    ASSUME RotationAssumption, NEW s, s \in Sessions, NEW n, n \in 0..MaxGen
    PROVE  /\ [NoOp EXCEPT !.pc = "locking", !.s = s, !.loaded = n] \in OpRecord
           /\ [NoOp EXCEPT !.pc = "locking", !.s = s, !.loaded = n].pc = "locking"
           /\ [NoOp EXCEPT !.pc = "locking", !.s = s, !.loaded = n].s = s
<1> DEFINE one == [NoOp EXCEPT !.pc = "locking"]
           two == [one EXCEPT !.s = s]
<1>1. one \in OpRecord /\ one.pc = "locking"
  <2>1. NoOp \in OpRecord
    BY NoOpIsTyped
  <2> QED
    BY <2>1 DEF OpRecord, Pcs
<1>2. two \in OpRecord /\ two.pc = "locking" /\ two.s = s
  <2> HIDE DEF one
  <2> QED
    BY <1>1 DEF OpRecord
<1>3. /\ [two EXCEPT !.loaded = n] \in OpRecord /\ [two EXCEPT !.loaded = n].pc = two.pc
      /\ [two EXCEPT !.loaded = n].s = two.s
  <2> HIDE DEF two
  <2> QED
    BY <1>2 DEF OpRecord
<1> QED
  BY <1>2, <1>3

LEMMA LockKeeps ==
    ASSUME RotationAssumption, RotationInv, NEW o \in Ops, NEW s \in Sessions, Lock(o, s)
    PROVE  RotationInv'
<1> DEFINE r == [NoOp EXCEPT !.pc = "locking", !.s = s, !.loaded = op[o].loaded]
<1>1. /\ op[o].pc = "idle" /\ (o \in Overlap \/ cat[o].pc = "idle") /\ conn.st # "absent"
      /\ acquire(s, Opened)
      /\ op' = [op EXCEPT ![o] = [NoOp EXCEPT !.pc = "locking", !.s = s, !.loaded = op[o].loaded]]
      /\ UNCHANGED <<actor, conn, rows, secrets, adv, cat, en, spends, faults>>
  BY DEF Lock, durable
<1>2. Opened \in SessRecord /\ Opened.alive /\ Opened.call.k = None
  BY OpenedIs
<1>3. op \in [Ops -> OpRecord] /\ op[o] \in OpRecord /\ cat \in [Ops -> CatRecord] /\ en \in EnRecord
  BY UsersTyped
<1>4. r \in OpRecord /\ r.pc = "locking" /\ r.s = s
  <2>1. op[o].loaded \in 0..MaxGen
    BY <1>3 DEF OpRecord
  <2> QED
    BY <2>1, LockingIs
<1>5. op' = [op EXCEPT ![o] = r]
  BY <1>1
<1> HIDE DEF r
<1>6. op' \in [Ops -> OpRecord] /\ op'[o] = r /\ \A q \in Ops : q # o => op'[q] = op[q]
  BY <1>3, <1>4, <1>5, NewRecord
<1>7. op'[o].pc = "locking" /\ op'[o].s = s
  BY <1>4, <1>6
<1>8. s # None /\ en.s # s /\ \A q \in Ops : op[q].s # s /\ cat[q].s # s
  BY <1>1 DEF acquire, FreeSession, RotationAssumption, None
<1>9. Owned'
  BY <1>1, <1>6, <1>7, <1>8, UsersTyped DEF Owned
<1>10. Receipt'
  BY <1>1, UsersTyped DEF Receipt
<1>11. \A q \in Ops \ Overlap : cat'[q] = cat[q] /\ (cat[q].pc = "flight" => op'[q] = op[q])
  BY <1>1, <1>6
<1>12. \A q \in Ops : \/ op'[q] = op[q]
                      \/ /\ op[q].pc = "idle" /\ op'[q].pc = "locking" /\ op'[q].s = s
                         /\ Opened.call.k = None /\ conn.st # "absent"
  BY <1>1, <1>2, <1>6, <1>7
<1> QED
  BY <1>1, <1>2, <1>3, <1>6, <1>9, <1>10, <1>11, <1>12, AcquireKeeps

LEMMA CatalogueAloneKeeps ==
    ASSUME RotationAssumption, RotationInv, NEW o \in Ops, NEW s \in Sessions, CatalogueAlone(o, s)
    PROVE  RotationInv'
<1> DEFINE r == [Opened EXCEPT !.intx = TRUE, !.locks = "row"]
<1>1. /\ cat[o].pc = "idle" /\ (o \in Overlap \/ op[o].pc = "idle") /\ actor /\ conn.st = "ready"
      /\ acquire(s, r) /\ cat' = [cat EXCEPT ![o] = [pc |-> "flight", s |-> s]]
      /\ UNCHANGED <<actor, conn, rows, secrets, adv, op, en, spends, faults>>
  BY DEF CatalogueAlone, durable
<1>2. r \in SessRecord /\ r.alive /\ r.call.k = None /\ r.locks = "row"
  <2>1. Opened \in SessRecord /\ Opened.alive /\ Opened.call.k = None
    BY OpenedIs
  <2>2. "row" \in {"none", "user", "row"}
    OBVIOUS
  <2>3. r \in SessRecord /\ r.alive = Opened.alive /\ r.call = Opened.call /\ r.locks = "row"
    BY <2>1, <2>2, SetFence
  <2> QED
    BY <2>1, <2>3
<1> HIDE DEF r
<1>3. op \in [Ops -> OpRecord] /\ cat \in [Ops -> CatRecord] /\ en \in EnRecord
  BY UsersTyped
<1>4. [pc |-> "flight", s |-> s] \in CatRecord
  BY DEF CatRecord
<1>5. cat' \in [Ops -> CatRecord] /\ cat'[o].pc = "flight" /\ cat'[o].s = s
      /\ \A q \in Ops : q # o => cat'[q] = cat[q]
  BY <1>1, <1>3, <1>4, NewCat
<1>6. s # None /\ en.s # s /\ \A q \in Ops : op[q].s # s /\ cat[q].s # s
  BY <1>1 DEF acquire, FreeSession, RotationAssumption, None
<1>7. Owned'
  BY <1>1, <1>5, <1>6, UsersTyped DEF Owned
<1>8. Receipt'
  BY <1>1, UsersTyped DEF Receipt
<1>9. \A q \in Ops \ Overlap :
        \/ cat'[q] = cat[q] /\ (cat[q].pc = "flight" => op'[q] = op[q])
        \/ /\ cat'[q].s = s /\ r.locks = "row" /\ r.call.k = None
           /\ actor /\ conn.st = "ready" /\ op'[q] = op[q] /\ op[q].pc = "idle"
  BY <1>1, <1>2, <1>5
<1> QED
  BY <1>1, <1>2, <1>3, <1>5, <1>7, <1>8, <1>9, AcquireKeeps

\* The sessions of the enrollment.
LEMMA EnrollOpensKeeps ==
    ASSUME RotationAssumption, RotationInv, NEW s \in Sessions,
           EnrollRequest(s) \/ EnrollInsert(s) \/ EnrollReadback(s)
    PROVE  RotationInv'
<1>1. UNCHANGED <<actor, conn, rows, secrets, adv, op, cat, spends, faults>>
  BY DEF EnrollRequest, EnrollInsert, EnrollReadback, durable
<1>2. op \in [Ops -> OpRecord] /\ cat \in [Ops -> CatRecord] /\ en \in EnRecord
  BY UsersTyped
<1>3. /\ s # None /\ en.s # s /\ \A q \in Ops : op[q].s # s /\ cat[q].s # s
      /\ FreeSession(s)
  BY DEF EnrollRequest, EnrollInsert, EnrollReadback, acquire, FreeSession, RotationAssumption, None
<1>4. PICK r \in SessRecord : acquire(s, r) /\ r.alive /\ r.call.k \in {None, "enroll"}
  <2>1. CASE EnrollRequest(s)
    <3> DEFINE r == [Opened EXCEPT !.intx = TRUE, !.locks = "user"]
    <3>1. r \in SessRecord /\ r.alive /\ r.call.k = None
      <4>1. Opened \in SessRecord /\ Opened.alive /\ Opened.call.k = None
        BY OpenedIs
      <4>2. "user" \in {"none", "user", "row"}
        OBVIOUS
      <4>3. r \in SessRecord /\ r.alive = Opened.alive /\ r.call = Opened.call /\ r.locks = "user"
        BY <4>1, <4>2, SetFence
      <4> QED
        BY <4>1, <4>3
    <3>2. acquire(s, r)
      BY <2>1 DEF EnrollRequest
    <3> HIDE DEF r
    <3> QED
      BY <3>1, <3>2
  <2>2. CASE EnrollInsert(s)
    <3> DEFINE c == [NoCall EXCEPT !.k = "enroll"]
               r == [Opened EXCEPT !.call = c]
    <3>1. c \in CallRecord /\ c.k = "enroll"
      BY NoCallIsTyped DEF CallRecord, Calls
    <3>2. acquire(s, r)
      BY <2>2 DEF EnrollInsert
    <3> HIDE DEF c
    <3>3. r \in SessRecord /\ r.alive /\ r.call = c
      BY <3>1, OpenedIs, SetCall
    <3> HIDE DEF r
    <3> QED
      BY <3>1, <3>2, <3>3
  <2>3. CASE EnrollReadback(s)
    <3> DEFINE r == [Opened EXCEPT !.client = "none"]
    <3>1. r \in SessRecord /\ r.alive /\ r.call.k = None
      BY OpenedIs, SetClient
    <3>2. acquire(s, r)
      BY <2>3 DEF EnrollReadback
    <3> HIDE DEF r
    <3> QED
      BY <3>1, <3>2
  <2> QED
    BY <2>1, <2>2, <2>3
<1>5. /\ en' \in EnRecord
      /\ \/ en'.s = s /\ en'.pc \in {"flight1", "flight2", "insert"}
         \/ en'.s = None /\ en'.pc \in {"receipt", "failed"}
      /\ en'.pc = "receipt" => conn.st = "ready"
  <2>1. CASE EnrollRequest(s)
    BY <2>1 DEF EnrollRequest, EnRecord
  <2>2. CASE EnrollInsert(s)
    BY <2>2 DEF EnrollInsert, EnRecord
  <2>3. CASE EnrollReadback(s)
    <3>1. en.pc = "verify" /\ en.s = None
      BY <2>3, UsersTyped DEF EnrollReadback, Owned
    <3> QED
      BY <1>2, <2>3, <3>1 DEF EnrollReadback, EnRecord
  <2> QED
    BY <2>1, <2>2, <2>3
<1>6. Owned'
  BY <1>1, <1>3, <1>5, UsersTyped DEF Owned
<1>7. Receipt'
  BY <1>1, <1>5 DEF Receipt
<1> QED
  BY <1>1, <1>2, <1>4, <1>5, <1>6, <1>7, AcquireKeeps

\* A session ends at the server: its lock and its call go with it.
LEMMA EndKeeps ==
    ASSUME RotationAssumption, RotationInv, NEW s \in Sessions, SessionEnds(s) \/ BackendDies(s)
    PROVE  RotationInv'
<1>1. /\ sess' = Ended(s) /\ Release(s) /\ sess[s].alive /\ faults' \in 0..MaxFaults
      /\ UNCHANGED <<actor, conn, rows, secrets, op, cat, en, spends>>
  <2>1. faults \in 0..MaxFaults /\ MaxFaults \in Nat
    BY DEF RotationInv, TypeOK, RotationAssumption
  <2> QED
    BY <2>1 DEF SessionEnds, BackendDies, durable
<1>2. /\ sess' \in [Sessions -> SessRecord] /\ \A t \in Sessions : t # s => sess'[t] = sess[t]
      /\ ~sess'[s].alive /\ sess'[s].locks = "none" /\ sess'[s].call = NoCall
  <2> DEFINE r == [NoSess EXCEPT !.client = sess[s].client]
  <2>1. sess \in [Sessions -> SessRecord] /\ sess[s].client \in {"none", "open"}
    BY UsersTyped DEF SessRecord
  <2>2. r \in SessRecord /\ ~r.alive /\ r.locks = "none" /\ r.call = NoCall
    BY <2>1, NoSessIs, SetClient
  <2>3. sess' = [sess EXCEPT ![s] = r]
    BY <1>1 DEF Ended
  <2> HIDE DEF r
  <2> QED
    BY <2>1, <2>2, <2>3
<1>3. /\ adv' \in Sessions \cup {None} /\ adv' # s /\ (adv # s => adv' = adv)
      /\ (adv' # None => sess'[adv'].alive)
  BY <1>1, <1>2, Types DEF RotationInv, Release, RotationAssumption, None
<1>4. TypeOK'
  <2>1. TablesTyped'
    BY <1>1, Types DEF RotationInv, TablesTyped
  <2> QED
    BY <1>1, <1>2, <1>3, <2>1, Types, TypesNext DEF RotationInv
<1>5. DeadIsEmpty'
  BY <1>2 DEF RotationInv, DeadIsEmpty
<1>6. Owned'
  BY <1>1 DEF RotationInv, Owned
<1>7. \A q \in Ops : op[q].pc # "idle" =>
        /\ op[q].s \in Sessions
        /\ op[q].s # s => sess'[op[q].s] = sess[op[q].s]
        /\ op[q].s = s => ~sess'[op[q].s].alive /\ sess'[op[q].s].call = NoCall
  BY <1>2, AtWork
<1>8. Covered'
  <2>1. \A q \in Ops : op[q].pc \notin {"idle", "locking"} /\ sess'[op[q].s].alive => adv' = op[q].s
    BY <1>3, <1>7 DEF RotationInv, Covered, AliveAt
  <2>2. \A t \in Sessions : sess'[t].call.k \notin {None, "enroll"} => adv' = t
    BY <1>2, <1>3 DEF RotationInv, Covered, NoCall
  <2> QED
    BY <1>1, <2>1, <2>2 DEF RotationInv, Covered, AliveAt
<1>9. TablesInv'
  BY <1>1 DEF RotationInv, TablesInv, Consistent, FromOnce, Unspent, CurrentIsLive, RefreshSpentOnce
<1>10. CallsNameRows'
  BY <1>1, <1>2 DEF RotationInv, CallsNameRows, NoCall, None
<1>11. \A q \in Ops : /\ Waiting(q)' /\ StillLoaded(q)' /\ Admitted(q)' /\ Paid(q)'
                      /\ Holds(q)' => Holds(q) /\ Held(q)' = Held(q)
  BY <1>1, <1>7, Undisturbed DEF RotationInv
<1>12. \A q \in Ops : Fences(q)'
  <2> SUFFICES ASSUME NEW q \in Ops, q \notin Overlap PROVE Fences(q)'
    BY DEF Fences
  <2>1. Fences(q)
    BY DEF RotationInv
  <2>2. cat[q].pc = "flight" => cat[q].s \in Sessions
    BY UsersTyped
  <2> QED
    BY <1>1, <1>2, <1>7, <2>1, <2>2 DEF Fences, AliveAt
<1>13. Receipt'
  BY <1>1 DEF RotationInv, Receipt
<1> QED
  BY <1>1, <1>4, <1>5, <1>6, <1>8, <1>9, <1>10, <1>11, <1>12, <1>13, StepKeeps

\* pg_advisory_lock: nobody else is past it.
LEMMA AdvisoryKeeps ==
    ASSUME RotationAssumption, RotationInv, NEW o \in Ops, advisory_lock(o)
    PROVE  RotationInv'
<1> DEFINE s == op[o].s
<1>1. /\ op[o].pc = "locking" /\ adv = None /\ adv' = s /\ sess[s].alive /\ sess' = sess
      /\ op' = [op EXCEPT ![o].pc = "check"]
      /\ UNCHANGED <<actor, conn, rows, secrets, cat, en, spends, faults>>
  BY DEF advisory_lock, durable
<1>2. op \in [Ops -> OpRecord] /\ s \in Sessions /\ s # None /\ Waiting(o) /\ conn.st # "absent"
  BY <1>1, AtWork DEF RotationAssumption, None
<1>3. /\ op' \in [Ops -> OpRecord] /\ \A q \in Ops : q # o => op'[q] = op[q]
      /\ op'[o].pc = "check" /\ op'[o].s = s
  BY <1>1, <1>2, NewPc DEF Pcs
<1>4. \A q \in Ops : op[q].pc # "idle" => op[q].s \in Sessions /\ op[q].s # None
  BY AtWork DEF RotationAssumption, None
<1>5. TypeOK'
  <2>1. TablesTyped'
    BY <1>1, Types DEF RotationInv, TablesTyped
  <2> QED
    BY <1>1, <1>2, <1>3, <2>1, Types, TypesNext DEF RotationInv
<1>6. DeadIsEmpty'
  BY <1>1 DEF RotationInv, DeadIsEmpty
<1>7. Owned'
  BY <1>1, <1>2, <1>3 DEF RotationInv, Owned
<1>8. Covered'
  <2>1. \A q \in Ops : op'[q].pc \notin {"idle", "locking"} /\ sess[op'[q].s].alive => s = op'[q].s
    <3> SUFFICES ASSUME NEW q \in Ops, q # o, op[q].pc \notin {"idle", "locking"}, sess[op[q].s].alive
                 PROVE  FALSE
      BY <1>3
    <3>1. adv = op[q].s
      BY DEF RotationInv, Covered, AliveAt
    <3> QED
      BY <1>1, <1>4, <3>1
  <2>2. \A t \in Sessions : sess[t].call.k \notin {None, "enroll"} => s = t
    BY <1>1 DEF RotationInv, Covered, RotationAssumption, None
  <2> QED
    BY <1>1, <1>2, <2>1, <2>2 DEF Covered, AliveAt
<1>9. TablesInv'
  BY <1>1 DEF RotationInv, TablesInv, Consistent, FromOnce, Unspent, CurrentIsLive, RefreshSpentOnce
<1>10. CallsNameRows'
  BY <1>1 DEF RotationInv, CallsNameRows
<1>11. \A q \in Ops : /\ Waiting(q)' /\ StillLoaded(q)' /\ Admitted(q)' /\ Paid(q)'
                      /\ Holds(q)' => Holds(q) /\ Held(q)' = Held(q) /\ op'[q].loaded = op[q].loaded
  <2> SUFFICES ASSUME NEW q \in Ops
               PROVE  /\ Waiting(q)' /\ StillLoaded(q)' /\ Admitted(q)' /\ Paid(q)'
                      /\ Holds(q)' => Holds(q) /\ Held(q)' = Held(q) /\ op'[q].loaded = op[q].loaded
    OBVIOUS
  <2>1. CASE q # o
    <3>1. op'[q] = op[q]
      BY <1>3, <2>1
    <3> QED
      BY <1>1, <3>1, Undisturbed DEF RotationInv
  <2>2. CASE q = o
    <3>1. Waiting(o)'
      BY <1>1, <1>2, <1>3 DEF Waiting, CallAt
    <3>2. StillLoaded(o)' /\ Admitted(o)' /\ Paid(o)' /\ ~Holds(o)'
      BY <1>3 DEF StillLoaded, Admitted, MayAdmit, Paid, HasPaid, Holds, Waits, Rotates, AfterToken
    <3> QED
      BY <2>2, <3>1, <3>2
  <2> QED
    BY <2>1, <2>2
<1>12. \A q \in Ops : Fences(q)'
  <2> SUFFICES ASSUME NEW q \in Ops, q \notin Overlap PROVE Fences(q)'
    BY DEF Fences
  <2>1. Fences(q)
    BY DEF RotationInv
  <2>2. CASE q = o
    BY <1>1, <1>3, <2>1, <2>2 DEF Fences
  <2>3. CASE q # o
    BY <1>1, <1>3, <2>1, <2>3 DEF Fences, AliveAt
  <2> QED
    BY <2>2, <2>3
<1>13. Receipt'
  BY <1>1 DEF RotationInv, Receipt
<1> QED
  BY <1>1, <1>5, <1>6, <1>7, <1>8, <1>9, <1>10, <1>11, <1>12, <1>13, StepKeeps

-----------------------------------------------------------------------------
(* The server runs a transaction. *)

LEMMA ServedIsTyped ==
    ASSUME sess \in [Sessions -> SessRecord], NEW s \in Sessions, NEW rep, rep \in {"ok", "no"},
           NEW i, i \in 0..MaxGen,
           sess' = [sess EXCEPT ![s].locks = "none", ![s].call.reply = rep, ![s].call.id = i]
    PROVE  /\ sess' \in [Sessions -> SessRecord] /\ \A t \in Sessions : t # s => sess'[t] = sess[t]
           /\ sess'[s].alive = sess[s].alive /\ sess'[s].locks = "none"
           /\ sess'[s].call.k = sess[s].call.k /\ sess'[s].call.reply = rep /\ sess'[s].call.id = i
<1>1. /\ \A t \in Sessions : t # s => sess'[t] = sess[t]
      /\ sess'[s].alive = sess[s].alive /\ sess'[s].locks = "none"
  BY DEF SessRecord
<1>2. /\ sess'[s].call.k = sess[s].call.k /\ sess'[s].call.reply = rep /\ sess'[s].call.id = i
  BY DEF SessRecord
<1>3. sess' \in [Sessions -> SessRecord]
  <2> DEFINE one == [sess[s] EXCEPT !.locks = "none"]
             c1 == [one.call EXCEPT !.reply = rep]
             two == [one EXCEPT !.call = c1]
             c2 == [two.call EXCEPT !.id = i]
  <2>1. one \in SessRecord
    BY DEF SessRecord
  <2>2. c1 \in CallRecord
    <3> HIDE DEF one
    <3> QED
      BY <2>1 DEF SessRecord, CallRecord
  <2>3. two \in SessRecord
    <3> HIDE DEF one, c1
    <3> QED
      BY <2>1, <2>2, SetCall
  <2>4. c2 \in CallRecord
    <3> HIDE DEF two
    <3> QED
      BY <2>3 DEF SessRecord, CallRecord
  <2>5. [two EXCEPT !.call = c2] \in SessRecord
    <3> HIDE DEF two, c2
    <3> QED
      BY <2>3, <2>4, SetCall
  <2>6. sess' = [sess EXCEPT ![s] = [two EXCEPT !.call = c2]]
    OBVIOUS
  <2> HIDE DEF two, c2
  <2> QED
    BY <2>5, <2>6
<1> QED
  BY <1>1, <1>2, <1>3

\* A transaction that is refused, and one that has nothing to write.
LEMMA RefusedKeeps ==
    ASSUME RotationAssumption, RotationInv, NEW s \in Sessions, NEW i, i \in 0..MaxGen,
           sess[s].alive, sess[s].call.k # None, sess[s].call.reply = None,
           sess[s].call.k # "begin" => i = sess[s].call.id,
           sess' = [sess EXCEPT ![s].locks = "none", ![s].call.reply = "no", ![s].call.id = i],
           UNCHANGED <<actor, conn, rows, secrets, adv, op, cat, en, spends, faults>>
    PROVE  RotationInv'
<1>1. /\ sess' \in [Sessions -> SessRecord] /\ \A t \in Sessions : t # s => sess'[t] = sess[t]
      /\ sess'[s].alive = sess[s].alive /\ sess'[s].locks = "none"
      /\ sess'[s].call.k = sess[s].call.k /\ sess'[s].call.reply = "no" /\ sess'[s].call.id = i
  BY UsersTyped, ServedIsTyped
<1>2. \A q \in Ops : op[q].pc # "idle" => op[q].s \in Sessions
  BY AtWork
<1>3. \A q \in Ops : op[q].pc # "idle" /\ op[q].s = s => op[q].pc \in {"wait", "failed"}
  BY DEF RotationInv, OpInv, Waiting, CallAt
<1>4. TypeOK'
  <2>1. TablesTyped'
    BY Types DEF RotationInv, TablesTyped
  <2>2. adv' # None => sess'[adv'].alive
    BY <1>1, Types DEF RotationInv
  <2> QED
    BY <1>1, <2>1, <2>2, Types, TypesNext DEF RotationInv
<1>5. DeadIsEmpty' /\ Owned' /\ Receipt'
  BY <1>1 DEF RotationInv, DeadIsEmpty, Owned, Receipt
<1>6. Covered'
  BY <1>1, <1>2 DEF RotationInv, Covered, AliveAt
<1>7. TablesInv'
  BY DEF RotationInv, TablesInv, Consistent, FromOnce, Unspent, CurrentIsLive, RefreshSpentOnce
<1>8. CallsNameRows'
  BY <1>1 DEF RotationInv, CallsNameRows
<1>9. \A q \in Ops : /\ Waiting(q)' /\ StillLoaded(q)' /\ Admitted(q)' /\ Paid(q)'
                     /\ Holds(q)' => Holds(q) /\ Held(q)' = Held(q)
  <2> SUFFICES ASSUME NEW q \in Ops
               PROVE  /\ Waiting(q)' /\ StillLoaded(q)' /\ Admitted(q)' /\ Paid(q)'
                      /\ Holds(q)' => Holds(q) /\ Held(q)' = Held(q)
    OBVIOUS
  <2>1. OpInv(q)
    BY DEF RotationInv
  <2>2. CASE op[q].pc = "idle" \/ op[q].s # s
    BY <1>1, <1>2, <2>1, <2>2, Undisturbed
  <2>3. CASE op[q].pc = "failed"
    BY <2>3, RestingIsFine
  <2>4. CASE op[q].s = s /\ op[q].pc = "wait"
    <3>1. CallAt(q)' = sess'[s].call /\ CallAt(q) = sess[s].call /\ AliveAt(q) /\ AliveAt(q)'
      BY <1>1, <2>4 DEF CallAt, AliveAt
    <3>2. Waiting(q)'
      <4>1. op[q].then # "begun" => sess[s].call.k # "begin"
        BY <2>1, <2>4, <3>1 DEF OpInv, Waiting, Replies
      <4> QED
        BY <1>1, <2>1, <2>4, <3>1, <4>1 DEF OpInv, Waiting
    <3>3. StillLoaded(q)'
      BY <1>1, <2>1, <2>4, <3>1 DEF OpInv, StillLoaded, Waits, Rotates, Rotation, None
    <3>4. Admitted(q)'
      BY <1>1, <2>4, <3>1 DEF Admitted, MayAdmit, Waits
    <3>5. Paid(q)'
      BY <2>1 DEF OpInv, Paid, HasPaid, Waits
    <3>6. Holds(q)' => Holds(q) /\ Held(q)' = Held(q)
      BY <1>1, <2>4, <3>1 DEF Holds, Held, Waits, Rotates
    <3> QED
      BY <3>2, <3>3, <3>4, <3>5, <3>6
  <2> QED
    BY <1>3, <2>2, <2>3, <2>4
<1>10. \A q \in Ops : Fences(q)'
  <2> SUFFICES ASSUME NEW q \in Ops, q \notin Overlap PROVE Fences(q)'
    BY DEF Fences
  <2>1. Fences(q)
    BY DEF RotationInv
  <2>2. op[q].pc = "flight" => op[q].s # s
    BY <1>3
  <2>3. cat[q].pc = "flight" => cat[q].s \in Sessions /\ cat[q].s # s
    BY <2>1, UsersTyped DEF Fences
  <2> QED
    BY <1>1, <1>2, <2>1, <2>2, <2>3 DEF Fences, AliveAt
<1> QED
  BY <1>4, <1>5, <1>6, <1>7, <1>8, <1>9, <1>10, StepKeeps

\* insert_enrollment: there is no operation before there is a connection.
LEMMA EnrolledKeeps ==
    ASSUME RotationAssumption, RotationInv, NEW s \in Sessions, NEW i, i \in 0..MaxGen,
           sess[s].alive, sess[s].call.k = "enroll", conn.st = "absent",
           sess' = [sess EXCEPT ![s].locks = "none", ![s].call.reply = "ok", ![s].call.id = i],
           conn' = [st |-> "ready", gen |-> 1, current |-> 1, pending |-> 0],
           rows' = rows, secrets' = [secrets EXCEPT ![1] = "live"],
           UNCHANGED <<actor, adv, op, cat, en, spends, faults>>
    PROVE  RotationInv'
<1>1. /\ sess' \in [Sessions -> SessRecord] /\ \A t \in Sessions : t # s => sess'[t] = sess[t]
      /\ sess'[s].alive = sess[s].alive /\ sess'[s].locks = "none"
      /\ sess'[s].call.k = sess[s].call.k
  BY UsersTyped, ServedIsTyped
<1>2. \A q \in Ops : op[q].pc = "idle"
  BY DEF RotationInv, Covered
<1>3. TablesTyped' /\ TablesInv'
  BY Types, EnrollTables DEF RotationInv
<1>4. TypeOK'
  <2>1. adv' # None => sess'[adv'].alive
    BY <1>1, Types DEF RotationInv
  <2> QED
    BY <1>1, <1>3, <2>1, Types, TypesNext DEF RotationInv
<1>5. DeadIsEmpty' /\ Owned'
  BY <1>1 DEF RotationInv, DeadIsEmpty, Owned
<1>6. Receipt'
  BY DEF Receipt
<1>7. Covered'
  BY <1>1, <1>2 DEF RotationInv, Covered
<1>8. CallsNameRows'
  BY <1>1 DEF RotationInv, CallsNameRows
<1>9. \A q \in Ops : Waiting(q)' /\ StillLoaded(q)' /\ Admitted(q)' /\ Paid(q)' /\ ~Holds(q)'
  BY <1>2, RestingIsFine
<1>10. \A q \in Ops : Fences(q)'
  <2> SUFFICES ASSUME NEW q \in Ops, q \notin Overlap PROVE Fences(q)'
    BY DEF Fences
  <2>1. Fences(q)
    BY DEF RotationInv
  <2>2. cat[q].pc = "flight" => cat[q].s \in Sessions
    BY UsersTyped
  <2> QED
    BY <1>1, <1>2, <2>1, <2>2 DEF Fences
<1> QED
  BY <1>3, <1>4, <1>5, <1>6, <1>7, <1>8, <1>9, <1>10, StepKeeps

\* A transaction of the operation that holds the advisory lock commits.  Every other
\* operation past the lock has lost its session.
LEMMA CommittedKeeps ==
    ASSUME RotationAssumption, RotationInv, NEW s \in Sessions, NEW i, i \in 0..MaxGen,
           sess[s].alive, sess[s].call.k \notin {None, "enroll"}, ~Blocked(s),
           sess[s].call.k # "begin" => i = sess[s].call.id,
           sess' = [sess EXCEPT ![s].locks = "none", ![s].call.reply = "ok", ![s].call.id = i],
           UNCHANGED <<actor, adv, op, cat, en, spends, faults>>,
           TablesTyped', TablesInv', conn'.st # "absent", Len(rows) <= Len(rows'),
           \A j \in 1..Len(rows) : rows'[j].from = rows[j].from
                                   /\ (rows[j].admitted => rows'[j].admitted),
           \A q \in Ops : op[q].s = s /\ op[q].pc = "wait" =>
             /\ StillLoaded(q)' /\ Admitted(q)'
             /\ Holds(q)' => \/ Holds(q) /\ Held(q)' = Held(q)
                             \/ /\ Held(q)' = Len(rows) + 1 /\ Len(rows) < Len(rows')
                                /\ rows'[Len(rows) + 1].from = op[q].loaded
    PROVE  RotationInv'
<1>1. /\ sess' \in [Sessions -> SessRecord] /\ \A t \in Sessions : t # s => sess'[t] = sess[t]
      /\ sess'[s].alive = sess[s].alive /\ sess'[s].locks = "none"
      /\ sess'[s].call.k = sess[s].call.k /\ sess'[s].call.id = i
  BY UsersTyped, ServedIsTyped
<1>2. \A q \in Ops : op[q].pc # "idle" => op[q].s \in Sessions
  BY AtWork
<1>3. \A q \in Ops : op[q].pc # "idle" /\ op[q].s = s => op[q].pc \in {"wait", "failed"}
  BY DEF RotationInv, OpInv, Waiting, CallAt
<1>4. adv = s
  BY DEF RotationInv, Covered
<1>5. \A q \in Ops : op[q].pc \notin {"idle", "locking"} /\ op[q].s # s => ~AliveAt(q)
  BY <1>4 DEF RotationInv, Covered
<1>6. TablesTyped /\ Len(rows) \in Nat /\ Len(rows') \in Nat
  BY Types DEF RotationInv, TablesTyped
<1>7. TypeOK'
  <2>1. adv' # None => sess'[adv'].alive
    BY <1>1, Types DEF RotationInv
  <2> QED
    BY <1>1, <2>1, Types, TypesNext DEF RotationInv
<1>8. DeadIsEmpty' /\ Owned' /\ Receipt'
  BY <1>1 DEF RotationInv, DeadIsEmpty, Owned, Receipt
<1>9. Covered'
  BY <1>1, <1>2 DEF RotationInv, Covered, AliveAt
<1>10. CallsNameRows'
  <2> SUFFICES ASSUME NEW t \in Sessions
               PROVE  /\ sess'[t].call.k \in {"admit", "stage", "finalize"} => sess'[t].call.id \in 1..Len(rows')
                      /\ sess'[t].call.k = "stage" => spends[rows'[sess'[t].call.id].from] = 1
    BY DEF CallsNameRows
  <2>1. /\ sess'[t].call.k = sess[t].call.k
        /\ sess[t].call.k \in {"admit", "stage", "finalize"} => sess'[t].call.id = sess[t].call.id
    BY <1>1
  <2>2. /\ sess[t].call.k \in {"admit", "stage", "finalize"} => sess[t].call.id \in 1..Len(rows)
        /\ sess[t].call.k = "stage" => spends[rows[sess[t].call.id].from] = 1
    BY DEF RotationInv, CallsNameRows
  <2> QED
    BY <1>6, <2>1, <2>2
<1>11. \A q \in Ops :
         /\ Waiting(q)' /\ StillLoaded(q)' /\ Admitted(q)' /\ Paid(q)'
         /\ Holds(q)' => \/ Holds(q) /\ Held(q)' = Held(q)
                         \/ /\ op[q].s = s /\ Held(q)' = Len(rows) + 1 /\ Len(rows) < Len(rows')
                            /\ rows'[Len(rows) + 1].from = op[q].loaded
  <2> SUFFICES ASSUME NEW q \in Ops
               PROVE  /\ Waiting(q)' /\ StillLoaded(q)' /\ Admitted(q)' /\ Paid(q)'
                      /\ Holds(q)' => \/ Holds(q) /\ Held(q)' = Held(q)
                                      \/ /\ op[q].s = s /\ Held(q)' = Len(rows) + 1
                                         /\ Len(rows) < Len(rows')
                                         /\ rows'[Len(rows) + 1].from = op[q].loaded
    OBVIOUS
  <2>1. OpInv(q)
    BY DEF RotationInv
  <2>2. CASE op[q].pc \in {"idle", "failed"}
    BY <2>2, RestingIsFine
  <2>3. CASE op[q].pc \notin {"idle", "failed"} /\ op[q].s # s
    <3>1. CallAt(q)' = CallAt(q) /\ AliveAt(q)' = AliveAt(q)
      BY <1>1, <1>2, <2>3 DEF CallAt, AliveAt
    <3>2. Waiting(q)'
      BY <2>1, <3>1 DEF OpInv, Waiting
    <3>3. StillLoaded(q)'
      BY <1>5, <2>3, <3>1 DEF StillLoaded, Rotates, Waits
    <3>4. Admitted(q)'
      <4> SUFFICES ASSUME MayAdmit(q) PROVE rows'[op[q].id].admitted /\ spends[op[q].loaded] = 0
        BY <3>1 DEF Admitted, MayAdmit, Waits
      <4>1. rows[op[q].id].admitted /\ spends[op[q].loaded] = 0
        BY <2>1 DEF OpInv, Admitted
      <4>2. Holds(q) /\ Held(q) = op[q].id
        BY DEF MayAdmit, Holds, Held, Waits, Rotates
      <4>3. op[q].id \in 1..Len(rows)
        BY <2>1, <4>2 DEF OpInv, Claimed
      <4> QED
        BY <4>1, <4>3
    <3>5. Paid(q)'
      BY <2>1 DEF OpInv, Paid, HasPaid, Waits
    <3>6. Holds(q)' => Holds(q) /\ Held(q)' = Held(q)
      BY <3>1 DEF Holds, Held, Waits
    <3> QED
      BY <3>2, <3>3, <3>4, <3>5, <3>6
  <2>4. CASE op[q].s = s /\ op[q].pc = "wait"
    <3>1. StillLoaded(q)' /\ Admitted(q)'
          /\ (Holds(q)' => \/ Holds(q) /\ Held(q)' = Held(q)
                           \/ /\ Held(q)' = Len(rows) + 1 /\ Len(rows) < Len(rows')
                              /\ rows'[Len(rows) + 1].from = op[q].loaded)
      BY <2>4
    <3>2. Waiting(q)'
      <4>1. CallAt(q)' = sess'[s].call /\ CallAt(q) = sess[s].call /\ AliveAt(q)
        BY <1>1, <2>4 DEF CallAt, AliveAt
      <4>2. op[q].then # "begun" => sess[s].call.k # "begin"
        BY <2>1, <2>4, <4>1 DEF OpInv, Waiting, Replies
      <4> QED
        BY <1>1, <2>1, <2>4, <4>1, <4>2 DEF OpInv, Waiting
    <3>3. Paid(q)'
      BY <2>1 DEF OpInv, Paid, HasPaid, Waits
    <3> QED
      BY <2>4, <3>1, <3>2, <3>3
  <2> QED
    BY <1>3, <2>2, <2>3, <2>4
<1>12. \A q \in Ops : Claimed(q)'
  <2>1. \A q \in Ops : Holds(q) => Held(q) \in 1..Len(rows) /\ rows[Held(q)].from = op[q].loaded
    BY DEF RotationInv, OpInv, Claimed
  <2>2. \A q, p \in Ops : Holds(q) /\ Holds(p) /\ Held(q) = Held(p) => q = p
    BY DEF RotationInv, OpInv, Claimed
  <2>3. \A q, p \in Ops : op[q].s = s /\ op[p].s = s => q = p
    BY DEF RotationInv, Owned, RotationAssumption, None
  <2> SUFFICES ASSUME NEW q \in Ops, Holds(q)'
               PROVE  /\ Held(q)' \in 1..Len(rows') /\ rows'[Held(q)'].from = op[q].loaded
                      /\ \A p \in Ops : Holds(p)' /\ Held(p)' = Held(q)' => p = q
    BY DEF Claimed
  <2>4. Held(q)' \in 1..Len(rows') /\ rows'[Held(q)'].from = op[q].loaded
    BY <1>6, <1>11, <2>1
  <2>5. ASSUME NEW p \in Ops, Holds(p)', Held(p)' = Held(q)' PROVE p = q
    BY <1>6, <1>11, <2>1, <2>2, <2>3, <2>5
  <2> QED
    BY <2>4, <2>5
<1>13. \A q \in Ops : Fences(q)'
  <2> SUFFICES ASSUME NEW q \in Ops, q \notin Overlap PROVE Fences(q)'
    BY DEF Fences
  <2>1. Fences(q)
    BY DEF RotationInv
  <2>2. op[q].pc = "flight" => op[q].s # s /\ ~AliveAt(q)
    BY <1>3, <1>5
  <2>3. cat[q].pc = "flight" => ~sess[cat[q].s].alive /\ cat[q].s \in Sessions
    <3> SUFFICES ASSUME cat[q].pc = "flight", sess[cat[q].s].alive PROVE FALSE
      BY UsersTyped
    <3>1. cat[q].s \in Sessions /\ cat[q].s # s /\ sess[cat[q].s].locks = "row"
      BY <2>1, UsersTyped DEF Fences
    <3> QED
      BY <3>1 DEF Blocked
  <2>4. cat[q].pc = "flight" => ~sess'[cat[q].s].alive
    BY <1>1, <2>3
  <2>5. op[q].pc = "flight" => ~sess'[op[q].s].alive
    BY <1>1, <1>2, <2>2 DEF AliveAt
  <2> QED
    BY <2>1, <2>4, <2>5 DEF Fences, AliveAt
<1>14. \A q \in Ops : OpInv(q)'
  BY <1>11, <1>12 DEF OpInv
<1> QED
  BY <1>7, <1>8, <1>9, <1>10, <1>13, <1>14 DEF RotationInv

LEMMA TablesFields ==
    /\ Tables.conn = conn /\ Tables.rows = rows /\ Tables.secrets = secrets
    /\ Tables \in [conn : {conn}, rows : {rows}, secrets : {secrets}]
  BY DEF Tables

\* What the operation that waits for the transaction of a session knows of it.
LEMMA OwnerKnows ==
    ASSUME RotationInv, NEW s \in Sessions, NEW q \in Ops, op[q].s = s, op[q].pc = "wait", sess[s].alive
    PROVE  /\ <<sess[s].call.k, op[q].then>> \in Replies
           /\ op[q].then # "begun" => sess[s].call.id = op[q].id
           /\ OpInv(q) /\ AliveAt(q) /\ CallAt(q) = sess[s].call
<1>1. OpInv(q) /\ AliveAt(q) /\ CallAt(q) = sess[s].call
  BY DEF RotationInv, AliveAt, CallAt
<1> QED
  BY <1>1 DEF OpInv, Waiting

\* A transaction that changes one row keeps where its rotation started.
LEMMA OneRowChanged ==
    ASSUME Len(rows) \in Nat, Len(rows') = Len(rows), NEW id,
           rows'[id].from = rows[id].from, rows[id].admitted => rows'[id].admitted,
           \A j \in 1..Len(rows) : j # id => rows'[j] = rows[j]
    PROVE  /\ Len(rows) <= Len(rows')
           /\ \A j \in 1..Len(rows) : rows'[j].from = rows[j].from
                                      /\ (rows[j].admitted => rows'[j].admitted)
<1>1. Len(rows) <= Len(rows')
  OBVIOUS
<1>2. ASSUME NEW j \in 1..Len(rows)
      PROVE  rows'[j].from = rows[j].from /\ (rows[j].admitted => rows'[j].admitted)
  <2>1. CASE j = id
    BY <2>1
  <2>2. CASE j # id
    BY <2>2
  <2> QED
    BY <2>1, <2>2
<1> QED
  BY <1>1, <1>2

\* The reply of a transaction that commits.
LEMMA ReplyIs ==
    ASSUME RotationAssumption, RotationInv, NEW s \in Sessions, NEW i, i \in 0..MaxGen,
           sess' = [sess EXCEPT ![s].locks = "none", ![s].call.reply = "ok", ![s].call.id = i]
    PROVE  sess'[s].call.reply = "ok" /\ sess'[s].call.id = i /\ sess'[s].alive = sess[s].alive
<1>1. sess \in [Sessions -> SessRecord]
  BY UsersTyped
<1>2. sess'[s].call.reply = "ok"
  BY <1>1, ServedIsTyped
<1>3. sess'[s].call.id = i
  BY <1>1, ServedIsTyped
<1>4. sess'[s].alive = sess[s].alive
  BY <1>1, ServedIsTyped
<1> QED
  BY <1>2, <1>3, <1>4

LEMMA BeginCommits ==
    ASSUME RotationAssumption, RotationInv, NEW s \in Sessions, actor, NEW n, n = Len(rows) + 1,
           sess[s].alive, sess[s].call.k = "begin", ~Blocked(s),
           begin_rotation(n) # Tables,
           sess' = [sess EXCEPT ![s].locks = "none", ![s].call.reply = "ok", ![s].call.id = n],
           conn' = begin_rotation(n).conn, rows' = begin_rotation(n).rows,
           secrets' = begin_rotation(n).secrets,
           UNCHANGED <<actor, adv, op, cat, en, spends, faults>>
    PROVE  RotationInv'
<1> DEFINE r == [from |-> conn.gen, st |-> "pending", candidate |-> 0, admitted |-> FALSE]
<1>1. TablesTyped /\ TablesInv
  BY Types DEF RotationInv
<1>2. /\ conn.st = "ready" /\ conn.gen < MaxGen
      /\ conn' = [conn EXCEPT !.st = "rotation_pending", !.pending = n]
      /\ rows' = Append(rows, r) /\ secrets' = secrets
  BY DEF begin_rotation
<1>3. TablesTyped' /\ TablesInv'
  BY <1>1, <1>2, BeginTables
<1>4. /\ conn'.st = "rotation_pending" /\ conn'.pending = Len(rows) + 1 /\ conn'.gen = conn.gen
  BY <1>1, <1>2 DEF TablesTyped
<1>5. Len(rows) \in Nat /\ Len(rows) < MaxGen
  BY <1>1 DEF TablesTyped, TablesInv, Consistent
<1>6. n \in 0..MaxGen
  BY <1>5 DEF RotationAssumption
<1>7. /\ Len(rows') = Len(rows) + 1 /\ rows'[Len(rows) + 1] = r
      /\ \A j \in 1..Len(rows) : rows'[j] = rows[j]
  <2>1. r \in Rotations
    BY <1>1, <1>2 DEF TablesTyped, TablesInv, Consistent, Rotations, Gens, RotationAssumption
  <2> HIDE DEF r
  <2> QED
    BY <1>1, <1>2, <2>1 DEF TablesTyped
<1>8. sess'[s].call.reply = "ok" /\ sess'[s].call.id = n /\ sess'[s].alive
  BY <1>6, ReplyIs
<1>9. \A q \in Ops : op[q].s = s /\ op[q].pc = "wait" =>
        /\ StillLoaded(q)' /\ Admitted(q)'
        /\ Held(q)' = Len(rows) + 1 /\ rows'[Len(rows) + 1].from = op[q].loaded
  <2> SUFFICES ASSUME NEW q \in Ops, op[q].s = s, op[q].pc = "wait"
               PROVE  /\ StillLoaded(q)' /\ Admitted(q)'
                      /\ Held(q)' = Len(rows) + 1 /\ rows'[Len(rows) + 1].from = op[q].loaded
    OBVIOUS
  <2>1. op[q].then = "begun" /\ OpInv(q) /\ AliveAt(q)
    BY OwnerKnows DEF Replies
  <2>2. conn.gen = op[q].loaded
    BY <2>1 DEF OpInv, StillLoaded, Waits
  <2>3. CallAt(q)'.id = n
    BY <1>8 DEF CallAt
  <2>4. StillLoaded(q)'
    BY <1>4, <2>1, <2>2, <2>3 DEF StillLoaded, Waits, Rotates, Rotation
  <2>5. Admitted(q)'
    BY <2>1 DEF Admitted, MayAdmit, Waits
  <2>6. Held(q)' = Len(rows) + 1
    BY <2>1, <2>3 DEF Held, Waits
  <2> QED
    BY <1>7, <2>2, <2>4, <2>5, <2>6
<1>10. Len(rows) <= Len(rows') /\ Len(rows) < Len(rows')
       /\ \A j \in 1..Len(rows) : rows'[j].from = rows[j].from
                                  /\ (rows[j].admitted => rows'[j].admitted)
  BY <1>5, <1>7
<1>11. conn'.st # "absent" /\ sess[s].call.k \notin {None, "enroll"}
  BY <1>4 DEF None
<1> QED
  BY <1>3, <1>6, <1>9, <1>10, <1>11, CommittedKeeps

\* The others keep the row of the rotation.
LEMMA AdmitCommits ==
    ASSUME RotationAssumption, RotationInv, NEW s \in Sessions, actor, NEW id, id = sess[s].call.id,
           sess[s].alive, sess[s].call.k = "admit", ~Blocked(s),
           admit_token_send(id) # Tables,
           sess' = [sess EXCEPT ![s].locks = "none", ![s].call.reply = "ok", ![s].call.id = id],
           conn' = admit_token_send(id).conn, rows' = admit_token_send(id).rows,
           secrets' = admit_token_send(id).secrets,
           UNCHANGED <<actor, adv, op, cat, en, spends, faults>>
    PROVE  RotationInv'
<1>1. TablesTyped /\ TablesInv
  BY Types DEF RotationInv
<1>2. /\ Rotating(id) /\ rows[id].from = conn.gen /\ ~rows[id].admitted
      /\ conn' = conn /\ secrets' = secrets
      /\ rows' = [rows EXCEPT ![id] = [rows[id] EXCEPT !.admitted = TRUE]]
  BY DEF admit_token_send, Tables
<1>3. TablesTyped' /\ TablesInv'
  BY <1>1, <1>2, AdmitTables
<1>4. id \in 1..Len(rows) /\ id \in 0..MaxGen /\ Len(rows) \in Nat /\ rows[id] \in Rotations
  BY <1>1, <1>2, RowTyped DEF TablesTyped, TablesInv, Consistent, Rotating, RotationAssumption
<1>5. /\ Len(rows') = Len(rows) /\ rows'[id].admitted /\ rows'[id].from = rows[id].from
      /\ \A j \in 1..Len(rows) : j # id => rows'[j] = rows[j]
  <2> DEFINE r == [rows[id] EXCEPT !.admitted = TRUE]
  <2>1. r \in Rotations /\ r.admitted /\ r.from = rows[id].from
    BY <1>4 DEF Rotations
  <2>2. rows' = [rows EXCEPT ![id] = r]
    BY <1>2
  <2> HIDE DEF r
  <2>3. Len(rows') = Len(rows) /\ rows'[id] = r /\ \A j \in 1..Len(rows) : j # id => rows'[j] = rows[j]
    BY <1>1, <1>4, <2>1, <2>2, RowChanges
  <2> QED
    BY <2>1, <2>3
<1>6. \A q \in Ops : op[q].s = s /\ op[q].pc = "wait" =>
        /\ StillLoaded(q)' /\ Admitted(q)' /\ Holds(q) /\ Held(q)' = Held(q)
  <2> SUFFICES ASSUME NEW q \in Ops, op[q].s = s, op[q].pc = "wait"
               PROVE  StillLoaded(q)' /\ Admitted(q)' /\ Holds(q) /\ Held(q)' = Held(q)
    OBVIOUS
  <2>1. op[q].then = "admitted" /\ OpInv(q) /\ AliveAt(q) /\ op[q].id = id
    BY OwnerKnows DEF Replies
  <2>2. Rotation(q, op[q].id)
    BY <2>1 DEF OpInv, StillLoaded, Waits
  <2>3. StillLoaded(q)'
    BY <1>2, <2>1, <2>2 DEF StillLoaded, Waits, Rotates, Rotation
  <2>4. Holds(q) /\ Held(q) = op[q].id /\ Held(q)' = op[q].id
    BY <2>1 DEF Holds, Held, Waits
  <2>5. rows[id].from = op[q].loaded
    BY <2>1, <2>4 DEF OpInv, Claimed
  <2>6. spends[op[q].loaded] = 0
    BY <1>1, <1>2, <1>4, <2>5 DEF TablesInv, Unspent
  <2>7. Admitted(q)'
    BY <1>5, <2>1, <2>6 DEF Admitted
  <2> QED
    BY <2>3, <2>4, <2>7
<1>7. Len(rows) <= Len(rows')
      /\ \A j \in 1..Len(rows) : rows'[j].from = rows[j].from
                                 /\ (rows[j].admitted => rows'[j].admitted)
  BY <1>4, <1>5, OneRowChanged
<1>8. conn'.st # "absent" /\ sess[s].call.k \notin {None, "enroll"}
  BY <1>2 DEF None, Rotating
<1> QED
  BY <1>3, <1>4, <1>6, <1>7, <1>8, CommittedKeeps

LEMMA StageCommits ==
    ASSUME RotationAssumption, RotationInv, NEW s \in Sessions, actor, NEW id, id = sess[s].call.id,
           sess[s].alive, sess[s].call.k = "stage", ~Blocked(s),
           stage_rotation(id) # Tables,
           sess' = [sess EXCEPT ![s].locks = "none", ![s].call.reply = "ok", ![s].call.id = id],
           conn' = stage_rotation(id).conn, rows' = stage_rotation(id).rows,
           secrets' = stage_rotation(id).secrets,
           UNCHANGED <<actor, adv, op, cat, en, spends, faults>>
    PROVE  RotationInv'
<1> DEFINE r == [from |-> rows[id].from, st |-> "staged",
                 candidate |-> conn.gen + 1, admitted |-> rows[id].admitted]
<1>1. TablesTyped /\ TablesInv
  BY Types DEF RotationInv
<1>2. Rotating(id) /\ rows[id].st = "pending"
  BY DEF stage_rotation
<1>3. id \in 1..Len(rows) /\ id \in 0..MaxGen /\ Len(rows) \in Nat /\ rows[id] \in Rotations
  BY <1>1, <1>2, RowTyped DEF TablesTyped, TablesInv, Consistent, Rotating, RotationAssumption
<1>4. /\ conn' = conn /\ secrets' = [secrets EXCEPT ![conn.gen + 1] = "live"]
      /\ rows' = [rows EXCEPT ![id] = r]
  <2>1. /\ conn' = conn /\ secrets' = [secrets EXCEPT ![conn.gen + 1] = "live"]
        /\ rows' = [rows EXCEPT ![id].st = "staged", ![id].candidate = conn.gen + 1]
    BY DEF stage_rotation, Tables
  <2>2. rows' = [rows EXCEPT ![id] = r]
    <3> DEFINE one == [rows[id] EXCEPT !.st = "staged"]
    <3>1. one = [from |-> rows[id].from, st |-> "staged", candidate |-> rows[id].candidate,
                 admitted |-> rows[id].admitted]
      BY <1>3 DEF Rotations
    <3>2. [one EXCEPT !.candidate = conn.gen + 1] = r
      <4> HIDE DEF one
      <4> QED
        BY <3>1
    <3>3. rows' = [rows EXCEPT ![id] = [one EXCEPT !.candidate = conn.gen + 1]]
      BY <2>1
    <3> QED
      BY <3>2, <3>3
  <2> QED
    BY <2>1, <2>2
<1>5. spends[rows[id].from] = 1
  BY DEF RotationInv, CallsNameRows
<1>6. TablesTyped' /\ TablesInv'
  BY <1>1, <1>2, <1>4, <1>5, StageTables
<1>7. /\ Len(rows') = Len(rows) /\ rows'[id].admitted = rows[id].admitted /\ rows'[id].from = rows[id].from
      /\ \A j \in 1..Len(rows) : j # id => rows'[j] = rows[j]
  <2>1. r \in Rotations /\ r.admitted = rows[id].admitted /\ r.from = rows[id].from
    <3>1. conn.gen + 1 \in 0..MaxGen
      BY <1>1, <1>2 DEF TablesTyped, TablesInv, Consistent, Rotating, RotationAssumption
    <3> QED
      BY <1>3, <3>1 DEF Rotations
  <2> HIDE DEF r
  <2>2. Len(rows') = Len(rows) /\ rows'[id] = r /\ \A j \in 1..Len(rows) : j # id => rows'[j] = rows[j]
    BY <1>1, <1>3, <1>4, <2>1, RowChanges
  <2> QED
    BY <2>1, <2>2
<1>8. \A q \in Ops : op[q].s = s /\ op[q].pc = "wait" =>
        /\ StillLoaded(q)' /\ Admitted(q)' /\ Holds(q) /\ Held(q)' = Held(q)
  <2> SUFFICES ASSUME NEW q \in Ops, op[q].s = s, op[q].pc = "wait"
               PROVE  StillLoaded(q)' /\ Admitted(q)' /\ Holds(q) /\ Held(q)' = Held(q)
    OBVIOUS
  <2>1. op[q].then = "staged" /\ OpInv(q) /\ AliveAt(q)
    BY OwnerKnows DEF Replies
  <2>2. Rotation(q, op[q].id)
    BY <2>1 DEF OpInv, StillLoaded, Waits
  <2>3. StillLoaded(q)'
    BY <1>4, <2>1, <2>2 DEF StillLoaded, Waits, Rotates, Rotation
  <2>4. Holds(q) /\ Held(q) = op[q].id /\ Held(q)' = op[q].id
    BY <2>1 DEF Holds, Held, Waits
  <2>5. Admitted(q)'
    BY <2>1 DEF Admitted, MayAdmit, Waits
  <2> QED
    BY <2>3, <2>4, <2>5
<1>9. Len(rows) <= Len(rows')
      /\ \A j \in 1..Len(rows) : rows'[j].from = rows[j].from
                                 /\ (rows[j].admitted => rows'[j].admitted)
  BY <1>3, <1>7, OneRowChanged
<1>10. conn'.st # "absent" /\ sess[s].call.k \notin {None, "enroll"}
  BY <1>2, <1>4 DEF None, Rotating
<1> QED
  BY <1>3, <1>6, <1>8, <1>9, <1>10, CommittedKeeps

LEMMA FinalizeCommits ==
    ASSUME RotationAssumption, RotationInv, NEW s \in Sessions, actor, NEW id, id = sess[s].call.id,
           sess[s].alive, sess[s].call.k = "finalize", sess[s].call.reply = None, ~Blocked(s),
           finalize_rotation(id) # Tables,
           sess' = [sess EXCEPT ![s].locks = "none", ![s].call.reply = "ok", ![s].call.id = id],
           conn' = finalize_rotation(id).conn, rows' = finalize_rotation(id).rows,
           secrets' = finalize_rotation(id).secrets,
           UNCHANGED <<actor, adv, op, cat, en, spends, faults>>
    PROVE  RotationInv'
<1> DEFINE r == [rows[id] EXCEPT !.st = "committed"]
<1>1. TablesTyped /\ TablesInv
  BY Types DEF RotationInv
<1>2. /\ Rotating(id) /\ rows[id].st = "staged"
      /\ conn' = [st |-> "ready", gen |-> conn.gen + 1, current |-> rows[id].candidate, pending |-> 0]
      /\ secrets' = [secrets EXCEPT ![conn.current] = "retired"]
      /\ rows' = [rows EXCEPT ![id].st = "committed"]
  BY DEF finalize_rotation
<1>3. id \in 1..Len(rows) /\ id \in 0..MaxGen /\ Len(rows) \in Nat /\ rows[id] \in Rotations
  BY <1>1, <1>2, RowTyped DEF TablesTyped, TablesInv, Consistent, Rotating, RotationAssumption
<1>4. rows' = [rows EXCEPT ![id] = r]
  BY <1>2
<1>5. TablesTyped' /\ TablesInv'
  BY <1>1, <1>2, <1>4, FinalizeTables
<1>6. /\ Len(rows') = Len(rows) /\ rows'[id].admitted = rows[id].admitted /\ rows'[id].from = rows[id].from
      /\ \A j \in 1..Len(rows) : j # id => rows'[j] = rows[j]
  <2>1. r \in Rotations /\ r.admitted = rows[id].admitted /\ r.from = rows[id].from
    BY <1>3 DEF Rotations
  <2> HIDE DEF r
  <2>2. Len(rows') = Len(rows) /\ rows'[id] = r /\ \A j \in 1..Len(rows) : j # id => rows'[j] = rows[j]
    BY <1>1, <1>3, <1>4, <2>1, RowChanges
  <2> QED
    BY <2>1, <2>2
<1>7. sess'[s].call.reply = "ok"
  BY <1>3, ReplyIs
<1>8. \A q \in Ops : op[q].s = s /\ op[q].pc = "wait" =>
        /\ StillLoaded(q)' /\ Admitted(q)' /\ Holds(q) /\ Held(q)' = Held(q)
  <2> SUFFICES ASSUME NEW q \in Ops, op[q].s = s, op[q].pc = "wait"
               PROVE  StillLoaded(q)' /\ Admitted(q)' /\ Holds(q) /\ Held(q)' = Held(q)
    OBVIOUS
  <2>1. op[q].then = "finalized" /\ OpInv(q) /\ AliveAt(q) /\ CallAt(q) = sess[s].call
    BY OwnerKnows DEF Replies
  <2>2. Rotation(q, op[q].id)
    BY <2>1 DEF OpInv, StillLoaded, Waits
  <2>3. Advanced(q)'
    BY <1>2, <2>2 DEF Rotation, Advanced
  <2>4. CallAt(q)'.reply = "ok"
    BY <1>7 DEF CallAt
  <2>5. StillLoaded(q)'
    BY <2>1, <2>3, <2>4 DEF StillLoaded, Waits, Rotates, None
  <2>6. Holds(q) /\ Held(q) = op[q].id /\ Held(q)' = op[q].id
    BY <2>1 DEF Holds, Held, Waits
  <2>7. Admitted(q)'
    BY <2>1 DEF Admitted, MayAdmit, Waits
  <2> QED
    BY <2>5, <2>6, <2>7
<1>9. Len(rows) <= Len(rows')
      /\ \A j \in 1..Len(rows) : rows'[j].from = rows[j].from
                                 /\ (rows[j].admitted => rows'[j].admitted)
  BY <1>3, <1>6, OneRowChanged
<1>10. conn'.st # "absent" /\ sess[s].call.k \notin {None, "enroll"}
  BY <1>2 DEF None
<1> QED
  BY <1>3, <1>5, <1>8, <1>9, <1>10, CommittedKeeps

\* A withdrawal closes rows and changes nothing else of them.
LEMMA WithdrawnRows ==
    ASSUME TablesTyped, NEW rst, NEW cst, rows' = Withdraw(rst, cst).rows,
           rows' \in Seq(Rotations)
    PROVE  /\ Len(rows') = Len(rows) /\ Len(rows) \in Nat
           /\ \A j \in 1..Len(rows) : rows'[j].from = rows[j].from
                                      /\ (rows[j].admitted => rows'[j].admitted)
<1>1. /\ rows' = [i \in DOMAIN rows |->
                    IF Open(rows[i]) THEN [rows[i] EXCEPT !.st = rst] ELSE rows[i]]
      /\ Len(rows) \in Nat /\ DOMAIN rows = 1..Len(rows)
  BY DEF Withdraw, TablesTyped
<1>2. Len(rows') = Len(rows)
  BY <1>1
<1>3. ASSUME NEW j \in 1..Len(rows)
      PROVE  rows'[j].from = rows[j].from /\ (rows[j].admitted => rows'[j].admitted)
  <2>1. rows[j] \in Rotations
    BY RowTyped DEF TablesTyped
  <2>2. rows'[j] = rows[j] \/ rows'[j] = [rows[j] EXCEPT !.st = rst]
    BY <1>1
  <2>3. CASE rows'[j] = rows[j]
    BY <2>3
  <2>4. CASE rows'[j] = [rows[j] EXCEPT !.st = rst]
    BY <2>1, <2>4 DEF Rotations
  <2> QED
    BY <2>2, <2>3, <2>4
<1> QED
  BY <1>1, <1>2, <1>3

\* clear_credentials: the operation that clears has no rotation any more.
LEMMA ClearCommits ==
    ASSUME RotationAssumption, RotationInv, NEW s \in Sessions, actor, NEW id, id = sess[s].call.id,
           sess[s].alive, sess[s].call.k = "clear", ~Blocked(s),
           clear_credentials # Tables,
           sess' = [sess EXCEPT ![s].locks = "none", ![s].call.reply = "ok", ![s].call.id = id],
           conn' = clear_credentials.conn, rows' = clear_credentials.rows,
           secrets' = clear_credentials.secrets,
           UNCHANGED <<actor, adv, op, cat, en, spends, faults>>
    PROVE  RotationInv'
<1>1. TablesTyped /\ TablesInv
  BY Types DEF RotationInv
<1>2. /\ conn.st # "absent" /\ conn.gen < MaxGen
      /\ conn' = Withdraw("cleared", "missing").conn /\ rows' = Withdraw("cleared", "missing").rows
      /\ secrets' = Withdraw("cleared", "missing").secrets
  BY DEF clear_credentials
<1>3. TablesTyped' /\ TablesInv'
  BY <1>1, <1>2, WithdrawTables
<1>4. id \in 0..MaxGen
  BY UsersTyped DEF SessRecord
<1>5. conn'.st # "absent" /\ sess[s].call.k \notin {None, "enroll"}
  BY <1>2 DEF None, Withdraw
<1>6. /\ Len(rows) <= Len(rows')
      /\ \A j \in 1..Len(rows) : rows'[j].from = rows[j].from
                                 /\ (rows[j].admitted => rows'[j].admitted)
  <2>1. rows' \in Seq(Rotations)
    BY <1>3 DEF TablesTyped
  <2>2. /\ Len(rows') = Len(rows) /\ Len(rows) \in Nat
        /\ \A j \in 1..Len(rows) : rows'[j].from = rows[j].from
                                   /\ (rows[j].admitted => rows'[j].admitted)
    BY <1>1, <1>2, <2>1, WithdrawnRows
  <2> QED
    BY <2>2
<1>7. \A q \in Ops : op[q].s = s /\ op[q].pc = "wait" =>
        StillLoaded(q)' /\ Admitted(q)' /\ ~Holds(q)'
  <2> SUFFICES ASSUME NEW q \in Ops, op[q].s = s, op[q].pc = "wait"
               PROVE  StillLoaded(q)' /\ Admitted(q)' /\ ~Holds(q)'
    OBVIOUS
  <2>1. op[q].then = "cleared"
    BY OwnerKnows DEF Replies
  <2> QED
    BY <2>1 DEF StillLoaded, Admitted, MayAdmit, Holds, Waits, Rotates
<1> QED
  BY <1>3, <1>4, <1>5, <1>6, <1>7, CommittedKeeps

-----------------------------------------------------------------------------
(* The server's steps *)

\* What the transaction of a session is, and which tables it leaves.
LEMMA AfterIs ==
    ASSUME NEW call, call.k \in Calls
    PROVE  /\ call.k = "enroll" => After(call) = insert_enrollment
           /\ call.k = "begin" => After(call) = begin_rotation(Len(rows) + 1)
           /\ call.k = "admit" => After(call) = admit_token_send(call.id)
           /\ call.k = "stage" => After(call) = stage_rotation(call.id)
           /\ call.k = "finalize" => After(call) = finalize_rotation(call.id)
           /\ call.k = "clear" => After(call) = clear_credentials
  BY DEF After, Calls

LEMMA ServeKeeps ==
    ASSUME RotationAssumption, RotationInv, NEW s \in Sessions, Serve(s)
    PROVE  RotationInv'
<1> DEFINE call == sess[s].call
           done == verify_actor_tx /\ After(call) # Tables
           i == IF call.k = "begin" THEN Len(rows) + 1 ELSE call.id
<1>1. /\ sess[s].alive /\ call.k # None /\ call.reply = None /\ ~Blocked(s)
      /\ UNCHANGED <<actor, adv, op, cat, en, spends, faults>>
  BY DEF Serve
<1>2. call.k \in Calls
  BY <1>1, UsersTyped DEF SessRecord
<1>3. i \in 0..MaxGen
  <2>1. call.id \in 0..MaxGen
    BY UsersTyped DEF SessRecord
  <2>2. Len(rows) \in Nat /\ Len(rows) < MaxGen /\ MaxGen \in Nat
    BY Types DEF RotationInv, TablesTyped, TablesInv, Consistent, RotationAssumption
  <2> QED
    BY <2>1, <2>2
<1>4. CASE ~done
  <2>1. /\ conn' = Tables.conn /\ rows' = Tables.rows /\ secrets' = Tables.secrets
        /\ sess' = [sess EXCEPT ![s].locks = "none", ![s].call.reply = "no", ![s].call.id = i]
    BY <1>4 DEF Serve
  <2>2. UNCHANGED <<conn, rows, secrets>>
    BY <2>1, TablesFields
  <2>3. call.k # "begin" => i = call.id
    OBVIOUS
  <2> HIDE DEF i
  <2> QED
    BY <1>1, <1>3, <2>1, <2>2, <2>3, RefusedKeeps
<1>5. CASE done
  <2>1. /\ actor /\ After(call) # Tables
        /\ conn' = After(call).conn /\ rows' = After(call).rows /\ secrets' = After(call).secrets
        /\ sess' = [sess EXCEPT ![s].locks = "none", ![s].call.reply = "ok", ![s].call.id = i]
    BY <1>5 DEF Serve, verify_actor_tx
  <2>2. CASE call.k = "enroll"
    <3>1. After(call) = insert_enrollment
      BY <1>2, <2>2, AfterIs
    <3>2. /\ conn.st = "absent"
          /\ conn' = [st |-> "ready", gen |-> 1, current |-> 1, pending |-> 0]
          /\ rows' = rows /\ secrets' = [secrets EXCEPT ![1] = "live"]
      BY <2>1, <3>1 DEF insert_enrollment
    <3> HIDE DEF i
    <3> QED
      BY <1>1, <1>3, <2>1, <2>2, <3>2, EnrolledKeeps
  <2>3. CASE call.k = "begin"
    <3>1. i = Len(rows) + 1
      BY <2>3
    <3>2. After(call) = begin_rotation(i)
      BY <1>2, <2>3, <3>1, AfterIs
    <3> HIDE DEF i
    <3> QED
      BY <1>1, <2>1, <2>3, <3>1, <3>2, BeginCommits
  <2>4. CASE call.k # "begin"
    <3>1. i = call.id
      BY <2>4
    <3>2. sess' = [sess EXCEPT ![s].locks = "none", ![s].call.reply = "ok", ![s].call.id = i]
      BY <2>1
    <3> HIDE DEF i
    <3>3. CASE call.k = "admit"
      <4>1. After(call) = admit_token_send(i)
        BY <1>2, <3>1, <3>3, AfterIs
      <4> QED
        BY <1>1, <2>1, <3>1, <3>2, <3>3, <4>1, AdmitCommits
    <3>4. CASE call.k = "stage"
      <4>1. After(call) = stage_rotation(i)
        BY <1>2, <3>1, <3>4, AfterIs
      <4> QED
        BY <1>1, <2>1, <3>1, <3>2, <3>4, <4>1, StageCommits
    <3>5. CASE call.k = "finalize"
      <4>1. After(call) = finalize_rotation(i)
        BY <1>2, <3>1, <3>5, AfterIs
      <4> QED
        BY <1>1, <2>1, <3>1, <3>2, <3>5, <4>1, FinalizeCommits
    <3>6. CASE call.k = "clear"
      <4>1. After(call) = clear_credentials
        BY <1>2, <3>6, AfterIs
      <4> QED
        BY <1>1, <2>1, <3>1, <3>2, <3>6, <4>1, ClearCommits
    <3> QED
      BY <1>2, <2>2, <2>4, <3>3, <3>4, <3>5, <3>6 DEF Calls
  <2> QED
    BY <2>2, <2>3, <2>4
<1> QED
  BY <1>4, <1>5

\* The revocation of the actor: no request that is fenced is under way, and what an
\* operation has loaded counts no more.
LEMMA AdvanceKeeps ==
    ASSUME RotationAssumption, RotationInv, advance_generation
    PROVE  RotationInv'
<1>1. /\ actor' = FALSE /\ \A s \in Sessions : sess[s].locks = "none"
      /\ UNCHANGED <<adv, sess, op, cat, en, spends, faults>>
  BY DEF advance_generation
<1>2. TablesTyped /\ TablesInv /\ Len(rows) \in Nat
  BY Types DEF RotationInv, TablesTyped
<1>3. /\ TablesTyped' /\ TablesInv' /\ (conn.st # "absent" => conn'.st # "absent")
      /\ Len(rows') = Len(rows)
      /\ \A j \in 1..Len(rows) : rows'[j].from = rows[j].from
                                 /\ (rows[j].admitted => rows'[j].admitted)
  <2>1. CASE conn.st = "absent"
    <3>1. UNCHANGED <<conn, rows, secrets, spends>>
      BY <2>1, <1>1 DEF advance_generation
    <3>2. TablesTyped'
      BY <1>2, <3>1 DEF TablesTyped
    <3>3. TablesInv'
      BY <1>2, <3>1 DEF TablesInv, Consistent, FromOnce, Unspent, CurrentIsLive, RefreshSpentOnce
    <3> QED
      BY <3>1, <3>2, <3>3
  <2>2. CASE conn.st # "absent"
    <3>1. /\ conn.gen < MaxGen
          /\ conn' = Withdraw("auth_required", "auth_required").conn
          /\ rows' = Withdraw("auth_required", "auth_required").rows
          /\ secrets' = Withdraw("auth_required", "auth_required").secrets
      BY <2>2 DEF advance_generation
    <3>2. TablesTyped' /\ TablesInv'
      BY <1>1, <1>2, <2>2, <3>1, WithdrawTables
    <3>3. conn'.st # "absent"
      BY <3>1 DEF Withdraw
    <3>4. rows' \in Seq(Rotations)
      BY <3>2 DEF TablesTyped
    <3>5. /\ Len(rows') = Len(rows) /\ Len(rows) \in Nat
          /\ \A j \in 1..Len(rows) : rows'[j].from = rows[j].from
                                     /\ (rows[j].admitted => rows'[j].admitted)
      BY <1>2, <3>1, <3>4, WithdrawnRows
    <3> QED
      BY <3>2, <3>3, <3>5
  <2> QED
    BY <2>1, <2>2
<1>4. TypeOK'
  BY <1>1, <1>3, Types, TypesNext DEF RotationInv
<1>5. DeadIsEmpty' /\ Owned'
  BY <1>1 DEF RotationInv, DeadIsEmpty, Owned
<1>6. Covered' /\ Receipt'
  BY <1>1, <1>3 DEF RotationInv, Covered, Receipt, AliveAt
<1>7. CallsNameRows'
  <2> SUFFICES ASSUME NEW t \in Sessions
               PROVE  /\ sess[t].call.k \in {"admit", "stage", "finalize"} => sess[t].call.id \in 1..Len(rows')
                      /\ sess[t].call.k = "stage" => spends[rows'[sess[t].call.id].from] = 1
    BY <1>1 DEF CallsNameRows
  <2>1. /\ sess[t].call.k \in {"admit", "stage", "finalize"} => sess[t].call.id \in 1..Len(rows)
        /\ sess[t].call.k = "stage" => spends[rows[sess[t].call.id].from] = 1
    BY DEF RotationInv, CallsNameRows
  <2> QED
    BY <1>3, <2>1
<1>8. \A q \in Ops : OpInv(q)'
  <2> SUFFICES ASSUME NEW q \in Ops PROVE OpInv(q)'
    OBVIOUS
  <2>1. OpInv(q)
    BY DEF RotationInv
  <2>2. Waiting(q)' /\ Paid(q)'
    BY <1>1, <2>1 DEF OpInv, Waiting, Paid, HasPaid, Waits, CallAt, AliveAt
  <2>3. StillLoaded(q)'
    BY <1>1 DEF StillLoaded
  <2>4. \A p \in Ops : (Holds(p)' <=> Holds(p)) /\ Held(p)' = Held(p)
    BY <1>1 DEF Holds, Held, Waits, CallAt
  <2>5. Claimed(q)'
    BY <1>1, <1>3, <2>1, <2>4 DEF OpInv, Claimed
  <2>6. Admitted(q)'
    <3> SUFFICES ASSUME MayAdmit(q) PROVE rows'[op[q].id].admitted /\ spends[op[q].loaded] = 0
      BY <1>1 DEF Admitted, MayAdmit, Waits, CallAt
    <3>1. rows[op[q].id].admitted /\ spends[op[q].loaded] = 0
      BY <2>1 DEF OpInv, Admitted
    <3>2. Holds(q) /\ Held(q) = op[q].id
      BY DEF MayAdmit, Holds, Held, Waits, Rotates
    <3>3. op[q].id \in 1..Len(rows)
      BY <2>1, <3>2 DEF OpInv, Claimed
    <3> QED
      BY <1>3, <3>1, <3>3
  <2> QED
    BY <2>2, <2>3, <2>5, <2>6 DEF OpInv
<1>9. \A q \in Ops : Fences(q)'
  <2> SUFFICES ASSUME NEW q \in Ops, q \notin Overlap PROVE Fences(q)'
    BY DEF Fences
  <2>1. Fences(q)
    BY DEF RotationInv
  <2>2. op[q].pc = "flight" => op[q].s \in Sessions
    BY AtWork
  <2>3. cat[q].pc = "flight" => cat[q].s \in Sessions
    BY UsersTyped
  <2>4. op[q].pc = "flight" => ~sess[op[q].s].alive
    BY <1>1, <2>1, <2>2 DEF Fences, AliveAt
  <2>5. cat[q].pc = "flight" => ~sess[cat[q].s].alive /\ op[q].pc = "idle"
    BY <1>1, <2>1, <2>3 DEF Fences
  <2> QED
    BY <1>1, <2>4, <2>5 DEF Fences, AliveAt
<1> QED
  BY <1>3, <1>4, <1>5, <1>6, <1>7, <1>8, <1>9 DEF RotationInv

-----------------------------------------------------------------------------
(* The theorem *)

LEMMA InitKeeps ==
    ASSUME RotationAssumption, Init
    PROVE  RotationInv
<1>1. /\ actor = TRUE /\ rows = <<>> /\ adv = None /\ faults = 0
      /\ conn = [st |-> "absent", gen |-> 0, current |-> 0, pending |-> 0]
      /\ secrets = [g \in Gens |-> "absent"] /\ spends = [g \in Gens |-> 0]
      /\ sess = [s \in Sessions |-> NoSess] /\ op = [o \in Ops |-> NoOp]
      /\ cat = [o \in Ops |-> [pc |-> "idle", s |-> None]] /\ en = [pc |-> "start", s |-> None]
  BY DEF Init
<1>2. MaxGen \in Nat /\ MaxGen # 0 /\ 0 \in 0..MaxGen /\ MaxFaults \in Nat /\ 0 \in 0..MaxFaults
  BY DEF RotationAssumption
<1>3. NoSess \in SessRecord /\ ~NoSess.alive /\ NoSess.locks = "none" /\ NoSess.call = NoCall
  BY NoSessIs
<1>4. NoOp \in OpRecord /\ NoOp.pc = "idle" /\ NoOp.s = None
  BY NoOpIsTyped DEF NoOp
<1>5. TablesTyped
  BY <1>1, <1>2 DEF TablesTyped
<1>6. TypeOK
  <2>1. /\ sess \in [Sessions -> SessRecord] /\ op \in [Ops -> OpRecord]
        /\ cat \in [Ops -> CatRecord] /\ en \in EnRecord
    BY <1>1, <1>3, <1>4 DEF CatRecord, EnRecord
  <2> QED
    BY <1>1, <1>2, <1>5, <2>1, Types
<1>7. TablesInv
  BY <1>1, <1>2 DEF TablesInv, Consistent, FromOnce, Unspent, CurrentIsLive, RefreshSpentOnce, Gens
<1>8. DeadIsEmpty /\ Receipt
  BY <1>1, <1>3 DEF DeadIsEmpty, Receipt
<1>9. \A o \in Ops : op[o].pc = "idle" /\ op[o].s = None /\ cat[o].pc = "idle" /\ cat[o].s = None
  BY <1>1, <1>4
<1>10. \A s \in Sessions : sess[s].call = NoCall /\ NoCall.k = None
  BY <1>1, <1>3 DEF NoCall
<1>11. Owned
  BY <1>1, <1>9 DEF Owned
<1>12. Covered /\ CallsNameRows
  BY <1>9, <1>10 DEF Covered, CallsNameRows, None
<1>13. \A o \in Ops : OpInv(o) /\ Fences(o)
  BY <1>9 DEF OpInv, Waiting, StillLoaded, Claimed, Admitted, MayAdmit, Paid, HasPaid, Holds,
              Waits, Rotates, AfterToken, Fences
<1> QED
  BY <1>6, <1>7, <1>8, <1>11, <1>12, <1>13 DEF RotationInv

LEMMA StutterKeeps ==
    ASSUME RotationInv, UNCHANGED vars
    PROVE  RotationInv'
<1>1. UNCHANGED <<actor, conn, rows, secrets, adv, sess, op, cat, en, spends, faults>>
  BY DEF vars, durable
<1>2. TypeOK'
  BY <1>1 DEF RotationInv, TypeOK
<1>3. DeadIsEmpty' /\ Owned' /\ Receipt' /\ CallsNameRows'
  BY <1>1 DEF RotationInv, DeadIsEmpty, Owned, Receipt, CallsNameRows
<1>4. Covered'
  BY <1>1 DEF RotationInv, Covered, AliveAt
<1>5. TablesInv'
  BY <1>1 DEF RotationInv, TablesInv, Consistent, FromOnce, Unspent, CurrentIsLive, RefreshSpentOnce
<1>6. \A q \in Ops : /\ Waiting(q)' /\ StillLoaded(q)' /\ Admitted(q)' /\ Paid(q)'
                     /\ Holds(q)' => Holds(q) /\ Held(q)' = Held(q)
  BY <1>1, Undisturbed DEF RotationInv
<1>7. \A q \in Ops : Fences(q)'
  BY <1>1 DEF RotationInv, Fences, AliveAt
<1> QED
  BY <1>1, <1>2, <1>3, <1>4, <1>5, <1>6, <1>7, StepKeeps

\* Every step of the system keeps the inductive invariant: one case per action.
LEMMA NextKeeps ==
    ASSUME RotationAssumption, RotationInv, [Next]_vars
    PROVE  RotationInv'
<1>1. CASE Enrolling
  <2>1. CASE EnrollReply
    BY <2>1, EnrollReplyKeeps
  <2>2. CASE EnrollCommitted \/ EnrollGivesUp
    BY <2>2, EnrollClosesKeeps
  <2>3. CASE \E s \in Sessions : EnrollRequest(s) \/ EnrollInsert(s) \/ EnrollReadback(s)
    BY <2>3, EnrollOpensKeeps
  <2> QED
    BY <1>1, <2>1, <2>2, <2>3 DEF Enrolling
<1>2. CASE advance_generation
  BY <1>2, AdvanceKeeps
<1>3. CASE \E o \in Ops : Operating(o)
  <2> SUFFICES ASSUME NEW o \in Ops, Operating(o) PROVE RotationInv'
    BY <1>3
  <2>1. CASE \E s \in Sessions : Lock(o, s)
    BY <2>1, LockKeeps
  <2>2. CASE \E s \in Sessions : CatalogueAlone(o, s)
    BY <2>2, CatalogueAloneKeeps
  <2>3. CASE advisory_lock(o)
    BY <2>3, AdvisoryKeeps
  <2>4. CASE LockChecks(o)
    BY <2>4, LockChecksKeeps
  <2>5. CASE load(o)
    BY <2>5, LoadKeeps
  <2>6. CASE \/ BeginRotation(o) \/ AdmitTokenSend(o) \/ StageRotation(o)
             \/ FinalizeRotation(o) \/ Clear(o)
    BY <2>6, SendsKeep
  <2>7. CASE Receive(o)
    BY <2>7, ReceiveKeeps
  <2>8. CASE CommitUnknown(o) \/ RequestLost(o)
    BY <2>8, UnknownKeeps
  <2>9. CASE before_request(o)
    BY <2>9, RequestKeeps
  <2>10. CASE release_after_headers(o)
    BY <2>10, ReleaseKeeps
  <2>11. CASE StageReadback(o)
    BY <2>11, ReadbackKeeps
  <2>12. CASE Confirm(o)
    BY <2>12, ConfirmKeeps
  <2>13. CASE Unlock(o)
    BY <2>13, UnlockKeeps
  <2>14. CASE GiveUp(o)
    BY <2>14, GiveUpKeeps
  <2>15. CASE CatalogueUnderLock(o)
    BY <2>15, CatalogueUnderLockKeeps
  <2>16. CASE CatalogueReply(o) \/ CatalogueLost(o)
    BY <2>16, CatalogueEndsKeeps
  <2> QED
    BY <2>1, <2>2, <2>3, <2>4, <2>5, <2>6, <2>7, <2>8, <2>9, <2>10, <2>11, <2>12, <2>13,
       <2>14, <2>15, <2>16 DEF Operating
<1>4. CASE \E s \in Sessions : Serving(s)
  <2> SUFFICES ASSUME NEW s \in Sessions, Serving(s) PROVE RotationInv'
    BY <1>4
  <2>1. CASE Serve(s)
    BY <2>1, ServeKeeps
  <2>2. CASE SessionEnds(s) \/ BackendDies(s)
    BY <2>2, EndKeeps
  <2> QED
    BY <2>1, <2>2 DEF Serving
<1>5. CASE UNCHANGED vars
  BY <1>5, StutterKeeps
<1> QED
  BY <1>1, <1>2, <1>3, <1>4, <1>5 DEF Next

\* The inductive invariant gives the properties.
LEMMA InvIsSafe ==
    ASSUME RotationAssumption, RotationInv
    PROVE  RotationSafety
<1>1. TypeOK /\ RefreshSpentOnce /\ CurrentIsLive
  BY DEF RotationInv, TablesInv
<1>2. LockCoversRotation
  <2> SUFFICES ASSUME NEW o \in Ops, op[o].s # None, actor, sess[op[o].s].alive
               PROVE  /\ op[o].pc \in {"ready", "begun", "discovered", "admitted", "flight", "answered",
                                       "metadata", "identified", "staged", "checked"}
                           => conn.gen = op[o].loaded
                      /\ op[o].pc \in {"finalized", "committed"}
                           => conn.st = "ready" /\ conn.gen = op[o].loaded + 1
    BY DEF LockCoversRotation, RotationInv, Receipt
  <2>1. op[o].pc # "idle" /\ StillLoaded(o)
    BY DEF RotationInv, Owned, OpInv
  <2> QED
    BY <2>1 DEF StillLoaded, AliveAt, Rotates, Rotation, Advanced
<1>3. FencedFlight
  <2> SUFFICES ASSUME NEW o \in Ops \ Overlap
               PROVE  /\ op[o].pc = "flight" /\ sess[op[o].s].client = "open" /\ sess[op[o].s].alive
                           => actor /\ conn.pending = op[o].id
                      /\ cat[o].pc = "flight" /\ sess[cat[o].s].client = "open" /\ sess[cat[o].s].alive
                           => actor /\ conn.st = "ready"
    BY DEF FencedFlight
  <2>1. Fences(o) /\ StillLoaded(o)
    BY DEF RotationInv, OpInv
  <2> QED
    BY <2>1 DEF Fences, StillLoaded, AliveAt, Rotates, Rotation
<1> QED
  BY <1>1, <1>2, <1>3 DEF RotationSafety

\* For any number of operations, sessions, generations and ended sessions: a refresh
\* token is spent at most once, the current secret of a connection in use is live and
\* nothing usable is left of one that was cleared or revoked, what an operation has
\* loaded stays true while its session holds the advisory lock, and a fenced request
\* is under way only while it is authorized (admit_token_send_inner, finalize_rotation_inner,
\* clear_credentials_inner, advance_generation, before_request).
THEOREM RotationIsSafe ==
    ASSUME RotationAssumption
    PROVE  Spec => []RotationSafety
<1>1. Init => RotationInv
  BY InitKeeps
<1>2. RotationInv /\ [Next]_vars => RotationInv'
  BY NextKeeps
<1>3. RotationInv => RotationSafety
  BY InvIsSafe
<1> QED
  BY <1>1, <1>2, <1>3, PTL DEF Spec

-----------------------------------------------------------------------------
(* The journal: the inductive invariant. *)

\* The rows an attempt can have, one phase after the other, and the closed ones.
Row1 == created_row
Row2 == admitted_row(Row1)
Row3 == registered_row(Row2)
Row4 == code_admitted_row(Row3)
Shut1 == closed_row(Row1)
Shut2 == closed_row(Row2)

WriteSteps1 == {"begin", "lock", "row", "commit", "ack", "read"}

\* The row a write takes on.
LegalWrite(write, r) ==
    \/ write = "create" /\ r = NoRow
    \/ write = "admit" /\ r = Row1
    \/ write = "registered" /\ r = Row2
    \/ write = "code" /\ r = Row3
    \/ write = "close" /\ r \in {Row1, Row2}
    \/ write = "adopt" /\ r = Row4

Living == result = Unset

\* What a living owner is doing, and the row it has proved.
OwnerOk ==
    Living =>
        /\ stage \in Writes <=> step \in WriteSteps1
        /\ stage \in Kinds <=> step = "http"
        /\ stage # "over" /\ step # "done"
        /\ stage \in Writes => LegalWrite(stage, expected)
        /\ stage = "created" => expected = Row1
        /\ stage \in {"admitted", "registration"} => expected = Row2
        /\ stage \in {"offer", "callback", "verified"} => expected = Row3
        /\ stage \in {"token", "tokens", "metadata", "profile"} => expected = Row4

\* What a living owner has proved is what the database has, but for a commit it
\* does not know of yet.
RowOk ==
    Living =>
        /\ step = "read" => tx.server = "committed"
        /\ step = "ack" => tx.server \in {"committing", "committed", "aborted"}
        /\ tx.server = "committing" => step = "ack" /\ tx.next = stage
        /\ IF step \in {"ack", "read"} /\ tx.server = "committed"
           THEN row = TargetRow(stage, expected) /\ (adopted <=> stage = "adopt")
           ELSE row = expected /\ ~adopted

\* A transaction has its locks while it is open, and the generation with them.
LocksOk ==
    /\ tx.actor \/ tx.row => tx.server \in {"open", "committing"}
    /\ tx.actor => gen = 0
    /\ Living /\ step \in {"row", "commit"} /\ tx.server = "open" => tx.actor
    /\ Living /\ step = "commit" /\ tx.server = "open" => tx.next = stage

\* What a commit on its way will do was earned.
CommitOk ==
    tx.server = "committing" =>
        /\ tx.actor /\ tx.next \in Writes /\ LegalWrite(tx.next, row) /\ ~adopted
        /\ tx.next = "registered" => "registration" \in replied
        /\ tx.next = "adopt" => replied = Kinds
        /\ tx.next = "close" => \A k \in Kinds : sends[k] = 0

\* A permit stands for a fence that holds, or for a call whose gate has closed, or
\* the connection broke.
PermitOk ==
    /\ permit => /\ Requesting
                 /\ fence \in {"holding", "rolling", "released", "failed"}
                 /\ http # "framed"
                 /\ fence = "holding" \/ http # "asking" \/ cancelled \/ expired
                    \/ (stage # "registration" /\ ~host)
    /\ Requesting /\ fence \in {"row", "holding"} =>
         \/ tx.server = "open" /\ tx.actor /\ (fence = "holding" => tx.row)
         \/ tx.server = "aborted" /\ losses > 0
    /\ Requesting /\ fence \in {"lock", "rolling"} => tx.server \in {"open", "aborted"}
    /\ Requesting /\ fence = "lock" /\ tx.server = "aborted" => losses > 0
    /\ Requesting /\ http = "framed" => fence \in {"waiting", "failed"}

\* What an owner at stage s has not sent yet, and what a living owner has not.
Before(s, k) ==
    \/ s \in {"create", "created", "admit", "admitted", "close"}
    \/ /\ k # "registration"
       /\ s \in {"registration", "registered", "offer", "callback", "verified", "code"}
    \/ k \in {"metadata", "profile"} /\ s \in {"token", "tokens"}
    \/ k = "profile" /\ s = "metadata"

Unsent(k) == Before(stage, k) \/ (stage = k /\ http \in {"framed", "asking"})

SendsOk ==
    /\ \A k \in Kinds : /\ sends[k] \in {0, 1}
                        /\ sends[k] = 1 => Admission(k) \in audited
                        /\ Living /\ Unsent(k) => sends[k] = 0
    /\ row.phase = "closed" => \A k \in Kinds : sends[k] = 0

RepliesOk ==
    /\ Living =>
         /\ stage \in {"registered", "offer", "callback", "verified", "code", "token",
                       "tokens", "metadata", "profile", "adopt"} => "registration" \in replied
         /\ stage \in {"tokens", "metadata", "profile", "adopt"} => "token" \in replied
         /\ stage \in {"profile", "adopt"} => "metadata" \in replied
         /\ stage = "adopt" => "profile" \in replied
    /\ row.phase \in {"registered", "code_admitted"} => "registration" \in replied
    /\ adopted => replied = Kinds

AuditOk ==
    /\ row.phase # Unset => row.phase \in audited
    /\ adopted => {"code_admitted", "adopted"} \subseteq audited

EndOk ==
    /\ result \in {"receipt", "closed"} => tx = NoTx
    /\ result = "receipt" => adopted
    /\ result = "closed" => row.phase = "closed"

JournalInv ==
    /\ JournalTypeOK /\ OwnerOk /\ RowOk /\ LocksOk /\ CommitOk /\ PermitOk
    /\ SendsOk /\ RepliesOk /\ AuditOk /\ EndOk

-----------------------------------------------------------------------------
(* Rows. *)

LEMMA RowFacts ==
    /\ NoRow \in Rows /\ NoRow.phase = Unset
    /\ Row1 \in Rows /\ Row1.phase = "created"
    /\ Row2 \in Rows /\ Row2.phase = "registration_admitted"
    /\ Row3 \in Rows /\ Row3.phase = "registered"
    /\ Row4 \in Rows /\ Row4.phase = "code_admitted"
    /\ Shut1 \in Rows /\ Shut1.phase = "closed"
    /\ Shut2 \in Rows /\ Shut2.phase = "closed"
  <1>1. NoRow = [phase |-> "none", client |-> FALSE, admitted_at |-> FALSE, code_at |-> FALSE,
                 finished |-> FALSE]
    BY DEF NoRow, Unset
  <1>2. Row1 = [phase |-> "created", client |-> FALSE, admitted_at |-> FALSE, code_at |-> FALSE,
                finished |-> FALSE]
    <2>1. PICK n : n = NoRow
      OBVIOUS
    <2>2. Row1 = [n EXCEPT !.phase = "created"]
      BY <2>1 DEF Row1, created_row
    <2>3. n = [phase |-> "none", client |-> FALSE, admitted_at |-> FALSE, code_at |-> FALSE,
               finished |-> FALSE]
      BY <1>1, <2>1
    <2> QED BY <2>2, <2>3
  <1>3. Row2 = [phase |-> "registration_admitted", client |-> FALSE, admitted_at |-> TRUE,
                code_at |-> FALSE, finished |-> FALSE]
    BY <1>2 DEF Row2, Row1, admitted_row
  <1>4. Row3 = [phase |-> "registered", client |-> TRUE, admitted_at |-> TRUE,
                code_at |-> FALSE, finished |-> FALSE]
    <2>1. Row2 = admitted_row(created_row)
      BY DEF Row2, Row1
    <2>2. Row3 = [Row2 EXCEPT !.phase = "registered", !.client = TRUE]
      BY <2>1 DEF Row3, registered_row
    <2> QED BY <1>3, <2>2
  <1>5. Row4 = [phase |-> "code_admitted", client |-> TRUE, admitted_at |-> TRUE,
                code_at |-> TRUE, finished |-> FALSE]
    BY <1>4 DEF Row4, code_admitted_row
  <1>6. Shut1 = [phase |-> "closed", client |-> FALSE, admitted_at |-> FALSE, code_at |-> FALSE,
                 finished |-> TRUE]
    BY <1>2 DEF Shut1, closed_row
  <1>7. Shut2 = [phase |-> "closed", client |-> FALSE, admitted_at |-> TRUE, code_at |-> FALSE,
                 finished |-> TRUE]
    BY <1>3 DEF Shut2, closed_row
  <1> QED BY <1>1, <1>2, <1>3, <1>4, <1>5, <1>6, <1>7 DEF Rows, Phases, Unset

\* What a write makes of its row.
LEMMA Targets ==
    ASSUME NEW write, NEW r, LegalWrite(write, r)
    PROVE  /\ write = "create" => TargetRow(write, r) = Row1
           /\ write = "admit" => TargetRow(write, r) = Row2
           /\ write = "registered" => TargetRow(write, r) = Row3
           /\ write = "code" => TargetRow(write, r) = Row4
           /\ write = "close" => TargetRow(write, r) \in {Shut1, Shut2}
           /\ write = "adopt" => TargetRow(write, r) = r /\ r = Row4
           /\ write \in Writes /\ TargetRow(write, r) \in Rows /\ r \in Rows
           /\ TargetRow(write, r).phase # Unset
  <1>1. CASE write = "create" /\ r = NoRow
    BY <1>1, RowFacts DEF TargetRow, Row1, Writes, Unset
  <1>2. CASE write = "admit" /\ r = Row1
    BY <1>2, RowFacts DEF TargetRow, Row2, Writes, Unset
  <1>3. CASE write = "registered" /\ r = Row2
    BY <1>3, RowFacts DEF TargetRow, Row3, Writes, Unset
  <1>4. CASE write = "code" /\ r = Row3
    BY <1>4, RowFacts DEF TargetRow, Row4, Writes, Unset
  <1>5. CASE write = "close" /\ r = Row1
    BY <1>5, RowFacts DEF TargetRow, Shut1, Writes, Unset
  <1>6. CASE write = "close" /\ r = Row2
    BY <1>6, RowFacts DEF TargetRow, Shut2, Writes, Unset
  <1>7. CASE write = "adopt" /\ r = Row4
    BY <1>7, RowFacts DEF TargetRow, Writes, Unset
  <1> QED BY <1>1, <1>2, <1>3, <1>4, <1>5, <1>6, <1>7 DEF LegalWrite

-----------------------------------------------------------------------------
(* What races with the attempt. *)

\* A revocation waits for the transaction that has the actor.
LEMMA RevokeKeeps ==
    ASSUME BoundsAssumption, JournalInv, RevokeActor
    PROVE  JournalInv'
  <1> USE DEF JournalInv, Living, Requesting
  <1>1. /\ gen < MaxRevocations /\ ~tx.actor /\ gen' = gen + 1
        /\ UNCHANGED <<session, host, cancelled, expired, losses, row, adopted, audited, tx>>
        /\ UNCHANGED <<http, fence, permit, headersEnd, stage, step, expected, result, sends, replied>>
    BY DEF RevokeActor, journalled, join, owner
  <1>2. JournalTypeOK'
    BY <1>1 DEF JournalTypeOK, BoundsAssumption
  <1>3. OwnerOk' /\ RowOk' /\ CommitOk' /\ PermitOk'
    BY <1>1 DEF OwnerOk, RowOk, CommitOk, PermitOk
  <1>4. LocksOk'
    BY <1>1 DEF LocksOk
  <1>5. SendsOk' /\ RepliesOk' /\ AuditOk' /\ EndOk'
    BY <1>1 DEF SendsOk, Unsent, Before, RepliesOk, AuditOk, EndOk
  <1> QED BY <1>2, <1>3, <1>4, <1>5

\* The gate of the flow closes, and stays closed.
GateCloses ==
    /\ session' \in BOOLEAN /\ host' \in BOOLEAN /\ cancelled' \in BOOLEAN /\ expired' \in BOOLEAN
    /\ (host' => host) /\ (cancelled => cancelled') /\ (expired => expired')
    /\ UNCHANGED <<gen, losses, row, adopted, audited, tx>>
    /\ UNCHANGED <<http, fence, permit, headersEnd, stage, step, expected, result, sends, replied>>

LEMMA GateKeeps ==
    ASSUME JournalInv, GateCloses
    PROVE  JournalInv'
  <1> USE DEF JournalInv, Living, Requesting
  <1>1. /\ session' \in BOOLEAN /\ host' \in BOOLEAN /\ cancelled' \in BOOLEAN /\ expired' \in BOOLEAN
        /\ (host' => host) /\ (cancelled => cancelled') /\ (expired => expired')
        /\ UNCHANGED <<gen, losses, row, adopted, audited, tx>>
        /\ UNCHANGED <<http, fence, permit, headersEnd, stage, step, expected, result, sends, replied>>
    BY DEF GateCloses
  <1>2. JournalTypeOK'
    BY <1>1 DEF JournalTypeOK
  <1>3. OwnerOk' /\ RowOk' /\ CommitOk' /\ LocksOk'
    BY <1>1 DEF OwnerOk, RowOk, CommitOk, LocksOk
  <1>4. PermitOk'
    BY <1>1 DEF PermitOk
  <1>5. SendsOk' /\ RepliesOk' /\ AuditOk' /\ EndOk'
    BY <1>1 DEF SendsOk, Unsent, Before, RepliesOk, AuditOk, EndOk
  <1> QED BY <1>2, <1>3, <1>4, <1>5

\* The owner is gone: its transaction is left to the server.
LEMMA DroppedKeeps ==
    ASSUME JournalInv, Living, Dropped
    PROVE  JournalInv'
  <1> USE DEF JournalInv, Living
  <1>1. /\ result' = "failed" /\ stage' = "over" /\ step' = "done" /\ permit' = FALSE
        /\ http' = "off" /\ fence' = "off" /\ headersEnd' = FALSE
        /\ UNCHANGED <<gen, session, host, cancelled, expired, losses, row, adopted, audited, tx>>
        /\ UNCHANGED <<expected, sends, replied>>
    BY DEF Dropped, world, journalled
  <1>2. result' # Unset
    BY <1>1 DEF Unset
  <1>3. JournalTypeOK'
    BY <1>1 DEF JournalTypeOK, Stages, Steps
  <1>4. OwnerOk' /\ RowOk' /\ PermitOk'
    BY <1>1, <1>2 DEF OwnerOk, RowOk, PermitOk, Requesting
  <1>5. LocksOk' /\ CommitOk'
    BY <1>1, <1>2 DEF LocksOk, CommitOk
  <1>6. SendsOk' /\ RepliesOk' /\ AuditOk'
    BY <1>1, <1>2 DEF SendsOk, RepliesOk, AuditOk
  <1>7. EndOk'
    BY <1>1 DEF EndOk
  <1> QED BY <1>3, <1>4, <1>5, <1>6, <1>7

\* The caller's next call.
LEMMA CallKeeps ==
    ASSUME JournalInv, NEW from, NEW to, NEW at, Call(from, to, at),
           \/ to \in Writes /\ at = "begin" /\ LegalWrite(to, expected)
           \/ to \in Kinds /\ at = "http"
           \/ to \in {"callback", "verified"} /\ at = "idle",
           to = "registration" => expected = Row2,
           to \in {"callback", "verified"} => expected = Row3,
           to \in {"token", "metadata", "profile"} => expected = Row4,
           \A k \in Kinds : Before(to, k) \/ to = k => sends[k] = 0,
           to \notin {"create", "created", "admit", "admitted", "close", "registration"} =>
               "registration" \in replied,
           to \in {"tokens", "metadata", "profile", "adopt"} => "token" \in replied,
           to \notin {"profile", "adopt"}
    PROVE  JournalInv'
  <1> USE DEF JournalInv, Living
  <1>1. /\ result = Unset /\ stage = from /\ step = "idle" /\ stage' = to /\ step' = at
        /\ http' = IF at = "http" THEN "framed" ELSE "off"
        /\ fence' = IF at = "http" THEN "waiting" ELSE "off"
        /\ UNCHANGED <<gen, session, host, cancelled, expired, losses, row, adopted, audited, tx>>
        /\ UNCHANGED <<permit, headersEnd, expected, result, sends, replied>>
    BY DEF Call, world, journalled
  <1>2. ~permit
    BY <1>1 DEF PermitOk, Requesting
  <1>3. JournalTypeOK'
    BY <1>1 DEF JournalTypeOK, Stages, Steps
  <1>4. OwnerOk'
    BY <1>1 DEF OwnerOk, WriteSteps1, Writes, Kinds, LegalWrite
  <1>5. RowOk'
    BY <1>1 DEF RowOk
  <1>6. LocksOk' /\ CommitOk'
    BY <1>1 DEF LocksOk, CommitOk
  <1>7. PermitOk'
    BY <1>1, <1>2 DEF PermitOk, Requesting
  <1>8. SendsOk'
    <2>1. ASSUME NEW k \in Kinds, Unsent(k)'
          PROVE  sends[k] = 0
      <3>1. Before(to, k) \/ to = k
        BY <1>1, <2>1 DEF Unsent, Before
      <3> QED BY <3>1
    <2> QED BY <1>1, <2>1 DEF SendsOk
  <1>9. RepliesOk'
    BY <1>1 DEF RepliesOk
  <1>10. AuditOk' /\ EndOk'
    BY <1>1 DEF AuditOk, EndOk
  <1> QED BY <1>3, <1>4, <1>5, <1>6, <1>7, <1>8, <1>9, <1>10

\* The calls of the caller between the operations.
LEMMA CallsKeep ==
    ASSUME JournalInv,
           \/ AdmitRegistration \/ CloseCreated \/ CloseAdmitted \/ RegisterAdmitted
           \/ HandOffUrl \/ CallbackVerified \/ CaptureToken \/ Enroll
    PROVE  JournalInv'
  <1> DEFINE Idle(from) == result = Unset /\ stage = from /\ step = "idle"
  <1>1. ASSUME NEW from, NEW to, NEW at, Call(from, to, at)
        PROVE  Idle(from)
    BY <1>1 DEF Call
  <1>2. CASE AdmitRegistration
    <2>1. Call("created", "admit", "begin") /\ Idle("created")
      BY <1>1, <1>2 DEF AdmitRegistration
    <2>2. expected = Row1 /\ \A k \in Kinds : sends[k] = 0
      BY <2>1 DEF JournalInv, OwnerOk, Living, SendsOk, Unsent, Before
    <2> QED BY <2>1, <2>2, CallKeeps DEF LegalWrite, Writes, Kinds, Before
  <1>3. CASE CloseCreated
    <2>1. Call("created", "close", "begin") /\ Idle("created")
      BY <1>1, <1>3 DEF CloseCreated
    <2>2. expected = Row1 /\ \A k \in Kinds : sends[k] = 0
      BY <2>1 DEF JournalInv, OwnerOk, Living, SendsOk, Unsent, Before
    <2> QED BY <2>1, <2>2, CallKeeps DEF LegalWrite, Writes, Kinds, Before
  <1>4. CASE CloseAdmitted
    <2>1. Call("admitted", "close", "begin") /\ Idle("admitted")
      BY <1>1, <1>4 DEF CloseAdmitted
    <2>2. expected = Row2 /\ \A k \in Kinds : sends[k] = 0
      BY <2>1 DEF JournalInv, OwnerOk, Living, SendsOk, Unsent, Before
    <2> QED BY <2>1, <2>2, CallKeeps DEF LegalWrite, Writes, Kinds, Before
  <1>5. CASE RegisterAdmitted
    <2>1. Call("admitted", "registration", "http") /\ Idle("admitted")
      BY <1>1, <1>5 DEF RegisterAdmitted
    <2>2. expected = Row2 /\ \A k \in Kinds : sends[k] = 0
      BY <2>1 DEF JournalInv, OwnerOk, Living, SendsOk, Unsent, Before
    <2> QED BY <2>1, <2>2, CallKeeps DEF Writes, Kinds, Before
  <1>6. CASE HandOffUrl
    <2>1. Call("offer", "callback", "idle") /\ Idle("offer")
      BY <1>1, <1>6 DEF HandOffUrl
    <2>2. /\ expected = Row3 /\ \A k \in Kinds \ {"registration"} : sends[k] = 0
          /\ "registration" \in replied
      BY <2>1 DEF JournalInv, OwnerOk, Living, SendsOk, Unsent, Before, RepliesOk
    <2> QED BY <2>1, <2>2, CallKeeps DEF Writes, Kinds, Before
  <1>7. CASE CallbackVerified
    <2>1. Call("callback", "verified", "idle") /\ Idle("callback")
      BY <1>1, <1>7 DEF CallbackVerified
    <2>2. /\ expected = Row3 /\ \A k \in Kinds \ {"registration"} : sends[k] = 0
          /\ "registration" \in replied
      BY <2>1 DEF JournalInv, OwnerOk, Living, SendsOk, Unsent, Before, RepliesOk
    <2> QED BY <2>1, <2>2, CallKeeps DEF Writes, Kinds, Before
  <1>8. CASE CaptureToken
    <2>1. Call("verified", "code", "begin") /\ Idle("verified")
      BY <1>1, <1>8 DEF CaptureToken
    <2>2. /\ expected = Row3 /\ \A k \in Kinds \ {"registration"} : sends[k] = 0
          /\ "registration" \in replied
      BY <2>1 DEF JournalInv, OwnerOk, Living, SendsOk, Unsent, Before, RepliesOk
    <2> QED BY <2>1, <2>2, CallKeeps DEF LegalWrite, Writes, Kinds, Before
  <1>9. CASE Enroll
    <2>1. Call("tokens", "metadata", "http") /\ Idle("tokens")
      BY <1>1, <1>9 DEF Enroll
    <2>2. /\ expected = Row4 /\ \A k \in {"metadata", "profile"} : sends[k] = 0
          /\ "registration" \in replied /\ "token" \in replied
      BY <2>1 DEF JournalInv, OwnerOk, Living, SendsOk, Unsent, Before, RepliesOk, Kinds
    <2> QED BY <2>1, <2>2, CallKeeps DEF Writes, Kinds, Before
  <1> QED BY <1>2, <1>3, <1>4, <1>5, <1>6, <1>7, <1>8, <1>9

-----------------------------------------------------------------------------
(* Writes. *)

\* A write of a living owner touches its transaction and its place only.
WriteMoves ==
    /\ result = Unset /\ stage \in Writes
    /\ UNCHANGED <<gen, session, host, cancelled, expired, losses, row, adopted, audited>>
    /\ UNCHANGED <<http, fence, permit, headersEnd, stage, expected, result, sends, replied>>

LEMMA WriteKeeps ==
    ASSUME JournalInv, WriteMoves, step' \in WriteSteps1, step # "read",
           tx' \in [server : {Unset, "open", "committing", "committed", "aborted"},
                    actor : BOOLEAN, row : BOOLEAN, next : Writes \cup {Unset}],
           step' = "read" => step = "ack" /\ tx'.server = "committed",
           step' = "ack" => tx'.server = "committing",
           step' # "ack" => tx'.server # "committing",
           step = "ack" => step' = "read" /\ tx' = tx,
           tx'.server = "committing" => tx'.next = stage /\ tx'.actor /\ LegalWrite(stage, row),
           tx'.actor \/ tx'.row => tx'.server \in {"open", "committing"},
           tx'.actor => gen = 0,
           step' \in {"row", "commit"} /\ tx'.server = "open" => tx'.actor,
           step' = "commit" /\ tx'.server = "open" => tx'.next = stage
    PROVE  JournalInv'
  <1> USE DEF JournalInv, Living
  <1>1. /\ result = Unset /\ stage \in Writes
        /\ UNCHANGED <<gen, session, host, cancelled, expired, losses, row, adopted, audited>>
        /\ UNCHANGED <<http, fence, permit, headersEnd, stage, expected, result, sends, replied>>
    BY DEF WriteMoves
  <1>2. stage \notin Kinds
    BY <1>1 DEF Writes, Kinds
  <1>3. JournalTypeOK'
    BY <1>1 DEF JournalTypeOK, Steps, WriteSteps1
  <1>4. OwnerOk'
    BY <1>1, <1>2 DEF OwnerOk, WriteSteps1
  <1>5. RowOk'
    <2>1. CASE step' = "ack"
      BY <1>1, <2>1 DEF RowOk
    <2>2. CASE step' = "read"
      BY <1>1, <2>2 DEF RowOk
    <2>3. CASE step' \notin {"ack", "read"}
      <3>1. step \notin {"ack", "read"}
        BY <2>3
      <3>2. row = expected /\ ~adopted /\ tx'.server # "committing"
        BY <1>1, <2>3, <3>1 DEF RowOk
      <3> QED BY <1>1, <2>3, <3>2 DEF RowOk
    <2> QED BY <2>1, <2>2, <2>3
  <1>6. LocksOk'
    BY <1>1 DEF LocksOk
  <1>7. CommitOk'
    <2>1. tx'.server = "committing" => ~adopted
      BY <1>1 DEF RowOk
    <2>2. /\ stage = "registered" => "registration" \in replied
          /\ stage = "adopt" => replied = Kinds
          /\ stage = "close" => \A k \in Kinds : sends[k] = 0
      <3>1. Living /\ RepliesOk /\ SendsOk /\ replied \subseteq Kinds
        BY <1>1 DEF JournalTypeOK
      <3>2. stage = "registered" => "registration" \in replied
        BY <3>1 DEF RepliesOk
      <3>3. stage = "adopt" => replied = Kinds
        BY <3>1 DEF RepliesOk, Kinds
      <3>4. stage = "close" => \A k \in Kinds : Unsent(k)
        BY DEF Unsent, Before, Kinds
      <3>5. stage = "close" => \A k \in Kinds : sends[k] = 0
        BY <3>1, <3>4 DEF SendsOk
      <3> QED BY <3>2, <3>3, <3>5
    <2> QED BY <1>1, <2>1, <2>2 DEF CommitOk
  <1>8. PermitOk'
    BY <1>1, <1>2 DEF PermitOk, Requesting
  <1>9. SendsOk' /\ RepliesOk' /\ AuditOk' /\ EndOk'
    BY <1>1 DEF SendsOk, Unsent, Before, RepliesOk, AuditOk, EndOk, Unset
  <1> QED BY <1>3, <1>4, <1>5, <1>6, <1>7, <1>8, <1>9

LEMMA WritesKeep ==
    ASSUME JournalInv, WriteSteps
    PROVE  JournalInv'
  <1> USE DEF JournalInv
  <1>1. tx \in [server : {Unset, "open", "committing", "committed", "aborted"},
                actor : BOOLEAN, row : BOOLEAN, next : Writes \cup {Unset}]
    BY DEF JournalTypeOK
  <1>2. CASE BeginWrite
    <2>1. PICK q : q = [NoTx EXCEPT !.server = "open"]
      OBVIOUS
    <2>2. step = "begin" /\ step' = "lock" /\ tx' = q /\ WriteMoves
      BY <1>2, <2>1 DEF BeginWrite, Writing, WriteMoves, world, journalled, join
    <2>3. /\ q.server = "open" /\ q.actor = FALSE /\ q.row = FALSE
          /\ q \in [server : {Unset, "open", "committing", "committed", "aborted"},
                    actor : BOOLEAN, row : BOOLEAN, next : Writes \cup {Unset}]
      BY <2>1 DEF NoTx
    <2> QED BY <2>2, <2>3, WriteKeeps DEF WriteSteps1
  <1>3. CASE LockActor
    <2>1. PICK q : q = [tx EXCEPT !.actor = TRUE]
      OBVIOUS
    <2>2. step = "lock" /\ step' = "row" /\ tx' = q /\ WriteMoves /\ tx.server = "open" /\ gen = 0
      BY <1>3, <2>1 DEF LockActor, LockActorOf, ActorCurrent, Writing, WriteMoves, world, journalled, join
    <2>3. /\ q.server = "open" /\ q.actor = TRUE
          /\ q \in [server : {Unset, "open", "committing", "committed", "aborted"},
                    actor : BOOLEAN, row : BOOLEAN, next : Writes \cup {Unset}]
      BY <1>1, <2>1, <2>2
    <2> QED BY <2>2, <2>3, WriteKeeps DEF WriteSteps1
  <1>4. CASE WriteRow
    <2>1. PICK q : q = [tx EXCEPT !.row = TRUE, !.next = stage]
      OBVIOUS
    <2>2. /\ step = "row" /\ step' = "commit" /\ tx' = q /\ WriteMoves /\ tx.server = "open"
          /\ result = Unset /\ stage \in Writes
      BY <1>4, <2>1 DEF WriteRow, Writing, WriteMoves, world, journalled, join
    <2>3. tx.actor = TRUE /\ gen = 0
      BY <1>1, <2>2 DEF LocksOk, Living
    <2>4. /\ q.server = "open" /\ q.actor = TRUE /\ q.next = stage
          /\ q \in [server : {Unset, "open", "committing", "committed", "aborted"},
                    actor : BOOLEAN, row : BOOLEAN, next : Writes \cup {Unset}]
      BY <1>1, <2>1, <2>2, <2>3
    <2> QED BY <2>2, <2>3, <2>4, WriteKeeps DEF WriteSteps1
  <1>5. CASE SendCommit
    <2>1. PICK q : q = [tx EXCEPT !.server = "committing"]
      OBVIOUS
    <2>2. /\ step = "commit" /\ step' = "ack" /\ tx' = q /\ WriteMoves /\ tx.server = "open"
          /\ result = Unset /\ stage \in Writes
      BY <1>5, <2>1 DEF SendCommit, Writing, WriteMoves, world, journalled, join
    <2>3. tx.actor = TRUE /\ gen = 0 /\ tx.next = stage
      BY <1>1, <2>2 DEF LocksOk, Living
    <2>4. LegalWrite(stage, row)
      BY <2>2 DEF OwnerOk, RowOk, Living
    <2>5. /\ q.server = "committing" /\ q.actor = TRUE /\ q.next = stage
          /\ q \in [server : {Unset, "open", "committing", "committed", "aborted"},
                    actor : BOOLEAN, row : BOOLEAN, next : Writes \cup {Unset}]
      BY <1>1, <2>1, <2>2, <2>3
    <2> QED BY <2>2, <2>3, <2>4, <2>5, WriteKeeps DEF WriteSteps1
  <1>6. CASE TimelyCommit
    <2>1. /\ step = "ack" /\ step' = "read" /\ tx' = tx /\ WriteMoves /\ tx.server = "committed"
      BY <1>6 DEF TimelyCommit, AckProven, Writing, WriteMoves, world, journalled, join
    <2>2. ~tx.actor /\ ~tx.row
      BY <2>1 DEF LocksOk
    <2> QED BY <1>1, <2>1, <2>2, WriteKeeps DEF WriteSteps1
  <1> QED BY <1>2, <1>3, <1>4, <1>5, <1>6 DEF WriteSteps

\* A write that was read back.
LEMMA ReadingKeeps ==
    ASSUME JournalInv, Readback
    PROVE  JournalInv'
  <1> USE DEF JournalInv, Living
  <1>1. /\ result = Unset /\ stage \in Writes /\ step = "read" /\ Exact(stage) /\ tx' = NoTx
        /\ expected' = TargetRow(stage, expected)
        /\ stage' = AfterWrite(stage)[1] /\ step' = AfterWrite(stage)[2]
        /\ result' = CASE stage = "adopt" -> "receipt"
                       [] stage = "close" -> "closed"
                       [] OTHER -> Unset
        /\ http' = (IF step' = "http" THEN "framed" ELSE "off")
        /\ fence' = (IF step' = "http" THEN "waiting" ELSE "off")
        /\ UNCHANGED <<gen, session, host, cancelled, expired, losses, row, adopted, audited>>
        /\ UNCHANGED <<permit, headersEnd, sends, replied>>
    BY DEF Readback, Writing, world, journalled
  <1>2. /\ row = expected' /\ (stage = "adopt" => adopted) /\ (adopted => stage = "adopt")
        /\ LegalWrite(stage, expected)
    BY <1>1 DEF RowOk, OwnerOk, Exact
  <1>3. /\ stage = "create" => expected' = Row1 /\ stage' = "created" /\ step' = "idle" /\ result' = Unset
        /\ stage = "admit" => expected' = Row2 /\ stage' = "admitted" /\ step' = "idle" /\ result' = Unset
        /\ stage = "registered" => expected' = Row3 /\ stage' = "offer" /\ step' = "idle" /\ result' = Unset
        /\ stage = "code" => expected' = Row4 /\ stage' = "token" /\ step' = "http" /\ result' = Unset
        /\ stage = "close" => /\ expected' \in {Shut1, Shut2} /\ stage' = "over" /\ step' = "done"
                              /\ result' = "closed"
        /\ stage = "adopt" => /\ expected' = Row4 /\ stage' = "over" /\ step' = "done"
                              /\ result' = "receipt"
        /\ stage \in {"create", "admit", "registered", "code", "close", "adopt"}
        /\ expected' \in Rows
    <2>1. /\ stage = "create" => TargetRow(stage, expected) = Row1
          /\ stage = "admit" => TargetRow(stage, expected) = Row2
          /\ stage = "registered" => TargetRow(stage, expected) = Row3
          /\ stage = "code" => TargetRow(stage, expected) = Row4
          /\ stage = "close" => TargetRow(stage, expected) \in {Shut1, Shut2}
          /\ stage = "adopt" => TargetRow(stage, expected) = Row4
          /\ TargetRow(stage, expected) \in Rows
      BY <1>2, Targets
    <2>2. stage \in {"create", "admit", "registered", "code", "close", "adopt"}
      BY <1>1 DEF Writes
    <2> QED BY <1>1, <2>1, <2>2 DEF AfterWrite
  <1>4. ~permit
    BY <1>1 DEF PermitOk, Requesting
  <1>5. tx'.server = "none" /\ tx'.actor = FALSE /\ tx'.row = FALSE /\ Unset = "none"
        /\ tx' \in [server : {Unset, "open", "committing", "committed", "aborted"},
                    actor : BOOLEAN, row : BOOLEAN, next : Writes \cup {Unset}]
    BY <1>1 DEF NoTx, Unset
  <1>6. JournalTypeOK'
    BY <1>1, <1>3, <1>5 DEF JournalTypeOK, Stages, Steps, Writes, Kinds
  <1>7. OwnerOk'
    BY <1>3, <1>5 DEF OwnerOk, WriteSteps1, Writes, Kinds
  <1>8. RowOk'
    BY <1>1, <1>2, <1>3, <1>5 DEF RowOk
  <1>9. LocksOk' /\ CommitOk'
    BY <1>1, <1>3, <1>5 DEF LocksOk, CommitOk
  <1>10. PermitOk'
    BY <1>1, <1>4, <1>5 DEF PermitOk, Requesting
  <1>11. SendsOk'
    <2>1. ASSUME NEW k \in Kinds, Unsent(k)', result' = Unset
          PROVE  sends[k] = 0
      BY <1>1, <1>3, <1>5, <2>1 DEF Unsent, Before, SendsOk, Kinds
    <2> QED BY <1>1, <2>1 DEF SendsOk
  <1>12. RepliesOk'
    BY <1>1, <1>3, <1>5 DEF RepliesOk
  <1>13. AuditOk'
    BY <1>1 DEF AuditOk
  <1>14. EndOk'
    BY <1>1, <1>2, <1>3, <1>5, RowFacts DEF EndOk
  <1> QED BY <1>6, <1>7, <1>8, <1>9, <1>10, <1>11, <1>12, <1>13, <1>14

-----------------------------------------------------------------------------
(* Requests. *)

TxRecords == [server : {Unset, "open", "committing", "committed", "aborted"},
              actor : BOOLEAN, row : BOOLEAN, next : Writes \cup {Unset}]

\* A step of a request touches the join, the fence's transaction and the sends.
RequestMoves ==
    /\ Requesting
    /\ UNCHANGED <<gen, session, host, cancelled, expired, losses, row, adopted, audited>>
    /\ UNCHANGED <<stage, step, expected, result, replied>>
    /\ http' \in {"asking", "sent", "headers", "released", "failed", http}
    /\ fence' \in {"lock", "row", "holding", "rolling", "released", "failed", fence}
    /\ permit' \in BOOLEAN /\ headersEnd' \in BOOLEAN

\* What a living request knows of its row.
LEMMA RequestFacts ==
    ASSUME JournalInv, Requesting
    PROVE  /\ result = Unset /\ stage \in Kinds /\ stage \notin Writes /\ step = "http"
           /\ tx.server # "committing"
           /\ row = expected /\ ~adopted
           /\ stage = "registration" => row = Row2
           /\ stage # "registration" => row = Row4
           /\ row.phase = Admission(stage) /\ Admission(stage) \in audited
           /\ stage \in {"registration", "token", "metadata", "profile"}
  <1>1. result = Unset /\ stage \in {"registration", "token", "metadata", "profile"} /\ step = "http"
    BY DEF Requesting, Kinds
  <1>2. tx.server # "committing" /\ row = expected /\ ~adopted
    BY <1>1 DEF JournalInv, RowOk, Living
  <1>3. /\ stage = "registration" => row = Row2
        /\ stage # "registration" => row = Row4
    BY <1>1, <1>2 DEF JournalInv, OwnerOk, Living
  <1>4. row.phase = Admission(stage)
    BY <1>1, <1>3, RowFacts DEF Admission
  <1>5. row.phase \in audited
    BY <1>4 DEF JournalInv, AuditOk, Admission, Unset
  <1> QED BY <1>1, <1>2, <1>3, <1>4, <1>5 DEF Kinds, Writes

LEMMA RequestingKeeps ==
    ASSUME JournalInv, RequestMoves, PermitOk',
           tx' \in TxRecords, tx'.server # "committing",
           tx'.actor \/ tx'.row => tx'.server = "open",
           tx'.actor => gen = 0,
           http' = "asking" => http \in {"framed", "asking"},
           \/ sends' = sends
           \/ sends' = [sends EXCEPT ![stage] = @ + 1] /\ http = "asking" /\ http' = "sent"
    PROVE  JournalInv'
  <1> USE DEF JournalInv, Living
  <1>1. /\ Requesting
        /\ UNCHANGED <<gen, session, host, cancelled, expired, losses, row, adopted, audited>>
        /\ UNCHANGED <<stage, step, expected, result, replied>>
        /\ http' \in {"asking", "sent", "headers", "released", "failed", http}
        /\ fence' \in {"lock", "row", "holding", "rolling", "released", "failed", fence}
        /\ permit' \in BOOLEAN /\ headersEnd' \in BOOLEAN
    BY DEF RequestMoves
  <1>2. /\ result = Unset /\ stage \in Kinds /\ stage \notin Writes /\ step = "http"
        /\ row = expected /\ ~adopted
        /\ row.phase = Admission(stage) /\ Admission(stage) \in audited
        /\ stage \in {"registration", "token", "metadata", "profile"}
    BY <1>1, RequestFacts
  <1>3. sends \in [Kinds -> Nat] /\ sends' \in [Kinds -> Nat]
    BY <1>2 DEF JournalTypeOK
  <1>4. JournalTypeOK'
    BY <1>1, <1>3 DEF JournalTypeOK, TxRecords
  <1>5. OwnerOk'
    BY <1>1 DEF OwnerOk
  <1>6. RowOk'
    BY <1>1, <1>2 DEF RowOk
  <1>7. LocksOk' /\ CommitOk'
    BY <1>1, <1>2 DEF LocksOk, CommitOk
  <1>8. SendsOk'
    <2>1. CASE sends' = sends
      <3>1. ASSUME NEW k \in Kinds, Unsent(k)'
            PROVE  Unsent(k)
        BY <1>1, <3>1 DEF Unsent, Before
      <3> QED BY <1>1, <1>2, <2>1, <3>1 DEF SendsOk
    <2>2. CASE sends' = [sends EXCEPT ![stage] = @ + 1] /\ http = "asking" /\ http' = "sent"
      <3>1. Unsent(stage)
        BY <2>2 DEF Unsent
      <3>2. sends[stage] = 0
        BY <1>2, <3>1 DEF SendsOk
      <3>3. sends'[stage] = 1 /\ \A k \in Kinds \ {stage} : sends'[k] = sends[k]
        BY <1>2, <1>3, <2>2, <3>2
      <3>4. ~Unsent(stage)'
        BY <1>1, <1>2, <2>2 DEF Unsent, Before
      <3>5. ASSUME NEW k \in Kinds \ {stage}, Unsent(k)'
            PROVE  Unsent(k)
        BY <1>1, <3>5 DEF Unsent, Before
      <3>6. row.phase # "closed"
        BY <1>2 DEF Admission
      <3> QED BY <1>1, <1>2, <3>3, <3>4, <3>5, <3>6 DEF SendsOk
    <2> QED BY <2>1, <2>2
  <1>9. RepliesOk' /\ AuditOk' /\ EndOk'
    BY <1>1, <1>2 DEF RepliesOk, AuditOk, EndOk, Unset
  <1> QED BY <1>4, <1>5, <1>6, <1>7, <1>8, <1>9

\* The transport.
HttpSteps == AskPermit \/ SendRequest \/ Headers \/ HttpFails \/ HttpReleased

LEMMA HttpKeeps ==
    ASSUME JournalInv, HttpSteps
    PROVE  JournalInv'
  <1>1. /\ tx' = tx /\ fence' = fence /\ permit' = permit /\ headersEnd' = headersEnd
        /\ RequestMoves
        /\ http' = "asking" => http = "framed"
        /\ http' # "framed"
        /\ \/ sends' = sends
           \/ sends' = [sends EXCEPT ![stage] = @ + 1] /\ http = "asking" /\ http' = "sent"
    <2>1. permit \in BOOLEAN /\ headersEnd \in BOOLEAN
      BY DEF JournalInv, JournalTypeOK
    <2> QED BY <2>1 DEF HttpSteps, AskPermit, SendRequest, Headers, HttpFails, HttpReleased, RequestMoves,
                        world, journalled, owner
  <1>2. PermitOk'
    BY <1>1 DEF JournalInv, PermitOk, RequestMoves, Requesting
  <1>3. /\ tx \in TxRecords /\ tx.server # "committing"
        /\ tx.actor \/ tx.row => tx.server = "open"
        /\ tx.actor => gen = 0
    <2>1. Requesting
      BY <1>1 DEF RequestMoves
    <2>2. tx.server # "committing"
      BY <2>1, RequestFacts
    <2> QED BY <2>2 DEF JournalInv, JournalTypeOK, LocksOk, TxRecords
  <1> QED BY <1>1, <1>2, <1>3, RequestingKeeps

\* The fence.
LEMMA FenceKeeps ==
    ASSUME JournalInv, FenceSteps
    PROVE  JournalInv'
  <1> DEFINE Kept(t) == /\ t \in TxRecords /\ t.server # "committing"
                        /\ t.actor \/ t.row => t.server = "open"
                        /\ t.actor => gen = 0
  <1>1. Requesting /\ permit \in BOOLEAN /\ headersEnd \in BOOLEAN
    BY DEF FenceSteps, FenceBegin, FenceLockActor, FencePermit, FenceRefuses, FenceEnds, FenceReleases,
           FenceFails, JournalInv, JournalTypeOK
  <1>2. Kept(tx)
    <2>1. tx.server # "committing"
      BY <1>1, RequestFacts
    <2> QED BY <2>1 DEF JournalInv, JournalTypeOK, LocksOk, TxRecords
  <1>3. Kept(NoTx) /\ NoTx.server = "none"
    BY DEF NoTx, TxRecords, Unset
  <1>4. PermitOk
    BY DEF JournalInv
  <1>5. CASE FenceBegin
    <2>1. PICK q : q = [NoTx EXCEPT !.server = "open"]
      OBVIOUS
    <2>2. /\ fence = "waiting" /\ fence' = "lock" /\ tx' = q /\ http = "asking" /\ http' = http
          /\ permit' = permit /\ headersEnd' = headersEnd /\ sends' = sends /\ RequestMoves
      BY <1>1, <1>5, <2>1 DEF FenceBegin, RequestMoves, world, journalled, owner
    <2>3. q.server = "open" /\ Kept(q)
      BY <2>1 DEF NoTx, TxRecords, Unset
    <2>4. PermitOk'
      BY <1>4, <2>2, <2>3 DEF PermitOk, RequestMoves, Requesting
    <2> QED BY <2>2, <2>3, <2>4, RequestingKeeps
  <1>6. CASE FenceLockActor
    <2>1. PICK q : q = [tx EXCEPT !.actor = TRUE]
      OBVIOUS
    <2>2. /\ fence = "lock" /\ fence' = "row" /\ tx' = q /\ http' = http /\ tx.server = "open" /\ gen = 0
          /\ permit' = permit /\ headersEnd' = headersEnd /\ sends' = sends /\ RequestMoves
      BY <1>1, <1>6, <2>1 DEF FenceLockActor, LockActorOf, ActorCurrent, RequestMoves, world, journalled, owner
    <2>3. q.server = "open" /\ q.actor = TRUE /\ Kept(q)
      BY <1>2, <2>1, <2>2 DEF TxRecords
    <2>4. PermitOk'
      BY <1>4, <2>2, <2>3 DEF PermitOk, RequestMoves, Requesting
    <2> QED BY <2>2, <2>3, <2>4, RequestingKeeps
  <1>7. CASE FencePermit
    <2>1. PICK q : q = [tx EXCEPT !.row = TRUE]
      OBVIOUS
    <2>2. /\ fence = "row" /\ fence' = "holding" /\ tx' = q /\ http' = http /\ tx.server = "open"
          /\ permit' = TRUE /\ headersEnd' = headersEnd /\ sends' = sends /\ RequestMoves
      BY <1>1, <1>7, <2>1 DEF FencePermit, RequestMoves, world, journalled, owner
    <2>3. tx.actor = TRUE
      BY <1>1, <1>2, <1>4, <2>2 DEF PermitOk, TxRecords
    <2>4. q.server = "open" /\ q.actor = TRUE /\ q.row = TRUE /\ Kept(q)
      BY <1>2, <2>1, <2>2, <2>3 DEF TxRecords
    <2>5. PermitOk'
      BY <1>1, <1>4, <2>2, <2>4 DEF PermitOk, RequestMoves, Requesting
    <2> QED BY <2>2, <2>4, <2>5, RequestingKeeps
  <1>8. CASE FenceRefuses
    <2>1. /\ fence \in {"waiting", "lock", "row"} /\ fence' = "failed" /\ tx' = tx /\ http' = http
          /\ permit' = permit /\ headersEnd' = headersEnd /\ sends' = sends /\ RequestMoves
      BY <1>1, <1>8 DEF FenceRefuses, RequestMoves, world, journalled, owner
    <2>2. PermitOk'
      BY <1>1, <1>4, <2>1 DEF PermitOk, RequestMoves, Requesting
    <2> QED BY <1>2, <2>1, <2>2, RequestingKeeps
  <1>9. CASE FenceEnds
    <2>1. /\ fence = "holding" /\ fence' = "rolling" /\ tx' = tx /\ http' = http
          /\ permit' = permit /\ sends' = sends /\ RequestMoves
      BY <1>1, <1>9 DEF FenceEnds, RequestMoves, world, journalled, owner
    <2>2. http \in {"headers", "failed"} \/ cancelled \/ expired \/ (stage # "registration" /\ ~host)
      BY <1>9 DEF FenceEnds, RegistrationHoldEnds, TokenHoldEnds, HeadersHoldEnds, Current
    <2>3. PermitOk'
      BY <1>1, <1>4, <2>1, <2>2 DEF PermitOk, RequestMoves, Requesting
    <2> QED BY <1>2, <2>1, <2>3, RequestingKeeps
  <1>10. CASE FenceReleases
    <2>1. /\ fence = "rolling" /\ fence' = "released" /\ tx' = NoTx /\ http' = http
          /\ permit' = permit /\ headersEnd' = headersEnd /\ sends' = sends /\ RequestMoves
      BY <1>1, <1>10 DEF FenceReleases, RequestMoves, world, journalled, owner
    <2>2. PermitOk'
      BY <1>1, <1>4, <2>1 DEF PermitOk, RequestMoves, Requesting
    <2> QED BY <1>3, <2>1, <2>2, RequestingKeeps
  <1>11. CASE FenceFails
    <2>1. /\ fence = "rolling" /\ fence' = "failed" /\ tx' = tx /\ http' = http
          /\ permit' = permit /\ headersEnd' = headersEnd /\ sends' = sends /\ RequestMoves
      BY <1>1, <1>11 DEF FenceFails, RequestMoves, world, journalled, owner
    <2>2. PermitOk'
      BY <1>1, <1>4, <2>1 DEF PermitOk, RequestMoves, Requesting
    <2> QED BY <1>2, <2>1, <2>2, RequestingKeeps
  <1> QED BY <1>5, <1>6, <1>7, <1>8, <1>9, <1>10, <1>11 DEF FenceSteps

\* An accepted reply moves the owner on.
LEMMA AcceptKeeps ==
    ASSUME JournalInv, Accept
    PROVE  JournalInv'
  <1> USE DEF JournalInv, Living
  <1>1. /\ Requesting /\ replied' = replied \cup {stage}
        /\ stage' = Then(stage)[1] /\ step' = Then(stage)[2]
        /\ http' = (IF step' = "http" THEN "framed" ELSE "off")
        /\ fence' = (IF step' = "http" THEN "waiting" ELSE "off")
        /\ permit' = FALSE /\ headersEnd' = FALSE
        /\ UNCHANGED <<gen, session, host, cancelled, expired, losses, row, adopted, audited, tx>>
        /\ UNCHANGED <<expected, result, sends>>
    BY DEF Accept, world, journalled
  <1>2. /\ result = Unset /\ step = "http" /\ tx.server # "committing"
        /\ row = expected /\ ~adopted
        /\ stage = "registration" => row = Row2
        /\ stage # "registration" => row = Row4
        /\ stage \in {"registration", "token", "metadata", "profile"}
    BY <1>1, RequestFacts
  <1>3. /\ stage = "registration" => stage' = "registered" /\ step' = "begin"
        /\ stage = "token" => stage' = "tokens" /\ step' = "idle"
        /\ stage = "metadata" => stage' = "profile" /\ step' = "http"
        /\ stage = "profile" => stage' = "adopt" /\ step' = "begin"
    BY <1>1, <1>2 DEF Then
  <1>4. JournalTypeOK'
    BY <1>1, <1>2, <1>3 DEF JournalTypeOK, Stages, Steps, Writes, Kinds
  <1>5. OwnerOk'
    BY <1>1, <1>2, <1>3 DEF OwnerOk, WriteSteps1, Writes, Kinds, LegalWrite
  <1>6. RowOk'
    BY <1>1, <1>2, <1>3 DEF RowOk
  <1>7. LocksOk' /\ CommitOk'
    BY <1>1, <1>2, <1>3 DEF LocksOk, CommitOk
  <1>8. PermitOk'
    BY <1>1, <1>2, <1>3 DEF PermitOk, Requesting
  <1>9. SendsOk'
    <2>1. ASSUME NEW k \in Kinds, Unsent(k)'
          PROVE  sends[k] = 0
      <3>1. Before(stage, k)
        BY <1>2, <1>3, <2>1 DEF Unsent, Before, Kinds
      <3> QED BY <1>2, <3>1 DEF SendsOk, Unsent
    <2> QED BY <1>1, <2>1 DEF SendsOk
  <1>10. RepliesOk'
    <2>1. row.phase # "registered" \/ "registration" \in replied
      BY DEF RepliesOk
    <2> QED BY <1>1, <1>2, <1>3, <2>1 DEF RepliesOk
  <1>11. AuditOk' /\ EndOk'
    BY <1>1, <1>2 DEF AuditOk, EndOk, Unset
  <1> QED BY <1>4, <1>5, <1>6, <1>7, <1>8, <1>9, <1>10, <1>11

-----------------------------------------------------------------------------
(* The database. *)

\* A commit that lands does what was earned for it.
LEMMA CommitKeeps ==
    ASSUME JournalInv, ServerCommits
    PROVE  JournalInv'
  <1> USE DEF JournalInv, Living
  <1>1. PICK q : q = [tx EXCEPT !.actor = FALSE, !.row = FALSE, !.server = "committed"]
    OBVIOUS
  <1>2. PICK next : next = tx.next
    OBVIOUS
  <1>3. /\ tx.server = "committing" /\ row' = TargetRow(next, row)
        /\ adopted' = (adopted \/ next = "adopt")
        /\ audited' = audited \cup {IF next = "adopt" THEN "adopted" ELSE row'.phase}
        /\ UNCHANGED <<gen, session, host, cancelled, expired, losses>>
        /\ UNCHANGED <<http, fence, permit, headersEnd, stage, step, expected, result, sends, replied>>
    BY <1>2 DEF ServerCommits, world, join, owner
  <1>4. tx' = q
    <2>1. tx' = [Freed EXCEPT !.server = "committed"]
      BY DEF ServerCommits
    <2> QED BY <1>1, <2>1 DEF Freed
  <1>5. tx \in TxRecords
    BY DEF JournalTypeOK, TxRecords
  <1>6. /\ tx'.server = "committed" /\ tx'.actor = FALSE /\ tx'.row = FALSE
        /\ tx' \in [server : {Unset, "open", "committing", "committed", "aborted"},
                    actor : BOOLEAN, row : BOOLEAN, next : Writes \cup {Unset}]
    BY <1>1, <1>4, <1>5 DEF TxRecords
  <1>7. /\ next \in Writes /\ LegalWrite(next, row) /\ ~adopted
        /\ next = "registered" => "registration" \in replied
        /\ next = "adopt" => replied = Kinds
        /\ next = "close" => \A k \in Kinds : sends[k] = 0
    BY <1>2, <1>3 DEF CommitOk
  <1>8. /\ next = "create" => row'.phase = "created"
        /\ next = "admit" => row'.phase = "registration_admitted"
        /\ next = "registered" => row'.phase = "registered"
        /\ next = "code" => row'.phase = "code_admitted" /\ row.phase = "registered"
        /\ next = "close" => row'.phase = "closed"
        /\ next = "adopt" => row' = row /\ row.phase = "code_admitted"
        /\ row' \in Rows
        /\ next \in {"create", "admit", "registered", "code", "close", "adopt"}
    BY <1>3, <1>7, Targets, RowFacts DEF LegalWrite
  <1>9. result = Unset => step = "ack" /\ next = stage /\ row = expected
    BY <1>2, <1>3 DEF RowOk
  <1>10. ~permit
    BY <1>3, <1>9 DEF PermitOk, Requesting
  <1>11. JournalTypeOK'
    <2>1. (IF next = "adopt" THEN "adopted" ELSE row'.phase) \in Phases \cup {"adopted"}
      BY <1>8 DEF Phases
    <2> QED BY <1>3, <1>6, <1>8, <2>1 DEF JournalTypeOK
  <1>12. OwnerOk'
    BY <1>3 DEF OwnerOk
  <1>13. RowOk'
    BY <1>3, <1>6, <1>7, <1>9 DEF RowOk
  <1>14. LocksOk' /\ CommitOk'
    BY <1>3, <1>6 DEF LocksOk, CommitOk
  <1>15. PermitOk'
    BY <1>3, <1>9, <1>10 DEF PermitOk, Requesting
  <1>16. SendsOk'
    <2>1. \A k \in Kinds : Unsent(k)' => Unsent(k)
      BY <1>3 DEF Unsent, Before
    <2>2. row'.phase = "closed" => next = "close"
      BY <1>8
    <2> QED BY <1>3, <1>7, <2>1, <2>2 DEF SendsOk
  <1>17. RepliesOk'
    BY <1>3, <1>7, <1>8 DEF RepliesOk
  <1>18. AuditOk'
    BY <1>3, <1>7, <1>8 DEF AuditOk, Unset
  <1>19. EndOk'
    <2>1. tx # NoTx
      BY <1>3 DEF NoTx
    <2> QED BY <1>3, <2>1 DEF EndOk
  <1> QED BY <1>11, <1>12, <1>13, <1>14, <1>15, <1>16, <1>17, <1>18, <1>19

\* A transaction that ends without a commit leaves the rows as they were.
LEMMA AbortKeeps ==
    ASSUME JournalInv, BoundsAssumption, ServerAborts \/ ConnectionBreaks
    PROVE  JournalInv'
  <1> USE DEF JournalInv, Living
  <1>1. PICK q : q = [tx EXCEPT !.actor = FALSE, !.row = FALSE, !.server = "aborted", !.next = Unset]
    OBVIOUS
  <1>2. /\ tx.server \in {"open", "committing"}
        /\ losses' \in 0..MaxLosses
        /\ losses' > 0 \/ (losses' = losses /\ Orphaned)
        /\ losses > 0 => losses' > 0
        /\ UNCHANGED <<gen, session, host, cancelled, expired, row, adopted, audited>>
        /\ UNCHANGED <<http, fence, permit, headersEnd, stage, step, expected, result, sends, replied>>
    BY DEF ServerAborts, ConnectionBreaks, world, journalled, join, owner, BoundsAssumption, JournalTypeOK
  <1>3. tx' = q
    <2>1. tx' = [Freed EXCEPT !.server = "aborted", !.next = Unset]
      BY DEF ServerAborts, ConnectionBreaks
    <2> QED BY <1>1, <2>1 DEF Freed
  <1>4. tx \in TxRecords
    BY DEF JournalTypeOK, TxRecords
  <1>5. /\ tx'.server = "aborted" /\ tx'.actor = FALSE /\ tx'.row = FALSE
        /\ tx' \in [server : {Unset, "open", "committing", "committed", "aborted"},
                    actor : BOOLEAN, row : BOOLEAN, next : Writes \cup {Unset}]
    BY <1>1, <1>3, <1>4 DEF TxRecords
  <1>6. JournalTypeOK'
    BY <1>2, <1>5 DEF JournalTypeOK
  <1>7. OwnerOk'
    BY <1>2 DEF OwnerOk
  <1>8. RowOk'
    BY <1>2, <1>5 DEF RowOk
  <1>9. LocksOk' /\ CommitOk'
    BY <1>2, <1>5 DEF LocksOk, CommitOk
  <1>10. PermitOk'
    <2>1. Requesting /\ fence \in {"row", "holding", "lock"} => losses' > 0
      BY <1>2 DEF Orphaned, Requesting
    <2> QED BY <1>2, <1>5, <2>1 DEF PermitOk, Requesting
  <1>11. SendsOk' /\ RepliesOk' /\ AuditOk'
    BY <1>2 DEF SendsOk, Unsent, Before, RepliesOk, AuditOk
  <1>12. EndOk'
    <2>1. tx # NoTx
      BY <1>2 DEF NoTx
    <2> QED BY <1>2, <2>1 DEF EndOk
  <1> QED BY <1>6, <1>7, <1>8, <1>9, <1>10, <1>11, <1>12

-----------------------------------------------------------------------------
(* The specification. *)

LEMMA JournalStarts ==
    ASSUME BoundsAssumption, JournalInit
    PROVE  JournalInv
  <1> USE DEF JournalInit
  <1>1. /\ tx.server = "none" /\ tx.actor = FALSE /\ tx.row = FALSE
        /\ tx \in [server : {Unset, "open", "committing", "committed", "aborted"},
                   actor : BOOLEAN, row : BOOLEAN, next : Writes \cup {Unset}]
    BY DEF NoTx, Unset
  <1>2. /\ NoRow \in Rows /\ NoRow.phase = "none"
    BY RowFacts DEF Unset
  <1>3. JournalTypeOK
    <2>1. gen \in 0..MaxRevocations /\ losses \in 0..MaxLosses /\ sends \in [Kinds -> Nat]
      BY DEF BoundsAssumption
    <2>2. stage \in Stages /\ step \in Steps /\ result = Unset
      BY DEF Stages, Steps, Writes
    <2>3. {session, host, cancelled, expired, adopted, permit, headersEnd} \subseteq BOOLEAN
      OBVIOUS
    <2> QED BY <1>1, <1>2, <2>1, <2>2, <2>3 DEF JournalTypeOK
  <1>4. OwnerOk /\ RowOk
    BY <1>1 DEF OwnerOk, RowOk, WriteSteps1, Writes, Kinds, LegalWrite
  <1>5. LocksOk /\ CommitOk /\ PermitOk
    BY <1>1 DEF LocksOk, CommitOk, PermitOk, Requesting, Kinds
  <1>6. SendsOk /\ RepliesOk /\ AuditOk /\ EndOk
    BY <1>2 DEF SendsOk, RepliesOk, AuditOk, EndOk, Unset
  <1> QED BY <1>3, <1>4, <1>5, <1>6 DEF JournalInv

LEMMA JournalSteps ==
    ASSUME BoundsAssumption, JournalInv, [JournalNext]_journalVars
    PROVE  JournalInv'
  <1>1. CASE UNCHANGED journalVars
    <2>1. /\ UNCHANGED <<gen, session, host, cancelled, expired, losses, row, adopted, audited, tx>>
          /\ UNCHANGED <<http, fence, permit, headersEnd, stage, step, expected, result, sends, replied>>
      BY <1>1 DEF journalVars, world, journalled, join, owner
    <2>2. session \in BOOLEAN /\ host \in BOOLEAN /\ cancelled \in BOOLEAN /\ expired \in BOOLEAN
      BY DEF JournalInv, JournalTypeOK
    <2> QED BY <2>1, <2>2, GateKeeps DEF GateCloses
  <1>2. CASE Operation
    <2>1. CASE \/ AdmitRegistration \/ CloseCreated \/ CloseAdmitted \/ RegisterAdmitted
               \/ HandOffUrl \/ CallbackVerified \/ CaptureToken \/ Enroll
      BY <2>1, CallsKeep
    <2>2. CASE WriteSteps
      BY <2>2, WritesKeep
    <2>3. CASE Readback
      BY <2>3, ReadingKeeps
    <2>4. CASE Abandon
      BY <2>4, DroppedKeeps DEF Abandon, Living
    <2> QED BY <1>2, <2>1, <2>2, <2>3, <2>4
            DEF Operation, JournalWrite, WriteRegistered, WriteCode, WriteAdoption, ReadbackExact,
                ReadAdoption
  <1>3. CASE Request
    <2>1. CASE HttpSteps
      BY <2>1, HttpKeeps
    <2>2. CASE FenceSteps
      BY <2>2, FenceKeeps
    <2>3. CASE Accept
      BY <2>3, AcceptKeeps
    <2>4. CASE Reject
      BY <2>4, DroppedKeeps DEF Reject, Requesting, Living
    <2> QED BY <1>3, <2>1, <2>2, <2>3, <2>4
            DEF Request, HttpSteps, RegistrationFence, TokenFence, HeadersFence, RegistrationReply,
                TokenReply, ReaderReply
  <1>4. CASE Server
    BY <1>4, CommitKeeps, AbortKeeps DEF Server
  <1>5. CASE RevokeActor
    BY <1>5, RevokeKeeps
  <1>6. CASE EndSession \/ LoseHost \/ Cancel \/ Expire
    <2>1. session \in BOOLEAN /\ host \in BOOLEAN /\ cancelled \in BOOLEAN /\ expired \in BOOLEAN
      BY DEF JournalInv, JournalTypeOK
    <2>2. EndSession => GateCloses
      <3>1. FALSE \in BOOLEAN
        OBVIOUS
      <3>2. ASSUME EndSession
            PROVE  /\ session' = FALSE /\ UNCHANGED <<host, cancelled, expired>>
                   /\ UNCHANGED <<gen, losses, row, adopted, audited, tx>>
                   /\ UNCHANGED <<http, fence, permit, headersEnd, stage, step, expected, result, sends,
                                  replied>>
        BY <3>2 DEF EndSession, journalled, join, owner
      <3>3. ASSUME EndSession
            PROVE  session' \in BOOLEAN /\ (host' => host)
        BY <3>1, <3>2, <3>3
      <3> QED BY <2>1, <3>2, <3>3 DEF GateCloses
    <2>3. LoseHost => GateCloses
      <3>1. FALSE \in BOOLEAN
        OBVIOUS
      <3>2. ASSUME LoseHost
            PROVE  /\ host' = FALSE /\ UNCHANGED <<session, cancelled, expired>>
                   /\ UNCHANGED <<gen, losses, row, adopted, audited, tx>>
                   /\ UNCHANGED <<http, fence, permit, headersEnd, stage, step, expected, result, sends,
                                  replied>>
        BY <3>2 DEF LoseHost, journalled, join, owner
      <3>3. ASSUME LoseHost
            PROVE  host' \in BOOLEAN /\ (host' => host)
        BY <3>1, <3>2, <3>3
      <3> QED BY <2>1, <3>2, <3>3 DEF GateCloses
    <2>4. Cancel => GateCloses
      BY <2>1 DEF Cancel, GateCloses, journalled, join, owner
    <2>5. Expire => GateCloses
      BY <2>1 DEF Expire, GateCloses, journalled, join, owner
    <2> QED BY <1>6, <2>2, <2>3, <2>4, <2>5, GateKeeps
  <1>7. CASE Crash
    BY <1>7, DroppedKeeps DEF Crash, Living
  <1> QED BY <1>1, <1>2, <1>3, <1>4, <1>5, <1>6, <1>7 DEF JournalNext

LEMMA JournalInvariant ==
    ASSUME BoundsAssumption
    PROVE  JournalSpec => []JournalInv
  <1>1. JournalInit => JournalInv
    BY JournalStarts
  <1>2. JournalInv /\ [JournalNext]_journalVars => JournalInv'
    BY JournalSteps
  <1> QED BY <1>1, <1>2, PTL DEF JournalSpec

LEMMA JournalInvGives ==
    ASSUME JournalInv
    PROVE  JournalSafety
  <1> USE DEF JournalInv, Living
  <1>1. JournalTypeOK
    OBVIOUS
  <1>2. SentIsJournalled
    BY DEF SentIsJournalled, SendsOk
  <1>3. PhasesAreEarned
    BY DEF PhasesAreEarned, RepliesOk, SendsOk
  <1>4. ReceiptIsDurable
    BY DEF ReceiptIsDurable, EndOk, AuditOk, RowOk
  <1> QED BY <1>1, <1>2, <1>3, <1>4 DEF JournalSafety

THEOREM SentAfterItsAdmission ==
    ASSUME BoundsAssumption
    PROVE  JournalSpec => []JournalSafety
  <1>1. JournalInv => JournalSafety
    BY JournalInvGives
  <1> QED BY <1>1, JournalInvariant, PTL

\* Only a request that is handed over changes the sends.
LEMMA SendsAreFenced ==
    ASSUME JournalInv, [JournalNext]_journalVars, NEW k \in Kinds, sends'[k] # sends[k]
    PROVE  \/ tx.actor /\ tx.row /\ gen = 0 /\ row.phase = Admission(k)
           \/ tx.server = "aborted" /\ losses > 0
  <1>1. SendRequest
    <2>1. sends' # sends
      OBVIOUS
    <2> QED BY <2>1 DEF JournalNext, Operation, Request, Server, JournalWrite, WriteRegistered, WriteCode,
            WriteAdoption, ReadbackExact, ReadAdoption, RegistrationFence, TokenFence, HeadersFence,
            RegistrationReply, TokenReply, ReaderReply, AdmitRegistration, CloseCreated, CloseAdmitted,
            RegisterAdmitted, HandOffUrl, CallbackVerified, CaptureToken, Enroll, Call, WriteSteps,
            BeginWrite, LockActor, WriteRow, SendCommit, TimelyCommit, Readback, Abandon, Dropped,
            AskPermit, Headers, HttpFails, HttpReleased, FenceSteps, FenceBegin, FenceLockActor,
            FencePermit, FenceRefuses, FenceEnds, FenceReleases, FenceFails, Accept, Reject, ServerCommits,
            ServerAborts, ConnectionBreaks, RevokeActor, EndSession, LoseHost, Cancel, Expire, Crash,
            journalVars
  <1>2. /\ Requesting /\ permit /\ ~cancelled /\ ~expired /\ (stage # "registration" => host)
        /\ http = "asking" /\ sends' = [sends EXCEPT ![stage] = @ + 1]
    BY <1>1 DEF SendRequest, MaySend
  <1>3. k = stage
    BY <1>2 DEF JournalInv, JournalTypeOK
  <1>4. fence = "holding"
    BY <1>2 DEF JournalInv, PermitOk
  <1>5. \/ tx.actor /\ tx.row
        \/ tx.server = "aborted" /\ losses > 0
    BY <1>2, <1>4 DEF JournalInv, PermitOk
  <1>6. row.phase = Admission(k)
    BY <1>2, <1>3, RequestFacts
  <1>7. tx.actor => gen = 0
    BY DEF JournalInv, LocksOk
  <1> QED BY <1>5, <1>6, <1>7

THEOREM SendsHoldTheActor ==
    ASSUME BoundsAssumption
    PROVE  JournalSpec => SendIsFenced
  <1>1. JournalInv /\ [JournalNext]_journalVars =>
            [\A k \in Kinds : sends'[k] # sends[k] =>
                 \/ tx.actor /\ tx.row /\ gen = 0 /\ row.phase = Admission(k)
                 \/ tx.server = "aborted" /\ losses > 0]_journalVars
    BY SendsAreFenced
  <1> QED BY <1>1, JournalInvariant, PTL DEF JournalSpec, SendIsFenced

\* Only a commit that lands changes the rows.
LEMMA RowsAreAuthorized ==
    ASSUME JournalInv, [JournalNext]_journalVars, row' # row \/ adopted' # adopted
    PROVE  gen = 0
  <1>1. ServerCommits
    BY DEF JournalNext, Operation, Request, Server, JournalWrite, WriteRegistered, WriteCode,
           WriteAdoption, ReadbackExact, ReadAdoption, RegistrationFence, TokenFence, HeadersFence,
           RegistrationReply, TokenReply, ReaderReply, AdmitRegistration, CloseCreated, CloseAdmitted,
           RegisterAdmitted, HandOffUrl, CallbackVerified, CaptureToken, Enroll, Call, WriteSteps,
           BeginWrite, LockActor, WriteRow, SendCommit, TimelyCommit, Readback, Abandon, Dropped,
           AskPermit, SendRequest, Headers, HttpFails, HttpReleased, FenceSteps, FenceBegin, FenceLockActor,
           FencePermit, FenceRefuses, FenceEnds, FenceReleases, FenceFails, Accept, Reject,
           ServerAborts, ConnectionBreaks, RevokeActor, EndSession, LoseHost, Cancel, Expire, Crash,
           journalVars, journalled
  <1>2. tx.server = "committing"
    BY <1>1 DEF ServerCommits
  <1> QED BY <1>2 DEF JournalInv, CommitOk, LocksOk

THEOREM RevokedActorWritesNothing ==
    ASSUME BoundsAssumption
    PROVE  JournalSpec => WritesAreAuthorized
  <1>1. JournalInv /\ [JournalNext]_journalVars =>
            [(row' # row \/ adopted' # adopted) => gen = 0]_journalVars
    BY RowsAreAuthorized
  <1> QED BY <1>1, JournalInvariant, PTL DEF JournalSpec, WritesAreAuthorized

-----------------------------------------------------------------------------
(***************************************************************************)
(* People who sign in.                                                     *)
(***************************************************************************)
(* The inductive invariant. *)

Tokens == [user : Users, gen : 0..MaxAuthGen, via : Attempts]
LoginRows == [phase : {"none", "open", "expired", "gone"}, provider : Providers \cup {Nil}]
CallbackRows ==
    [pc : {"idle", "burnt", "loaded", "verified", "signed_in", "failed", "corrupt"},
     attempt : Attempts \cup {Nil}, config : Configs \cup {Nil}, identity : Identities \cup {Nil}]
RequestRows ==
    [pc : {"idle", "resolved", "retire", "done", "died"}, actor : Users \cup {Nil},
     gen : 0..MaxAuthGen, admin : BOOLEAN, session : Attempts \cup {Nil}]
Redeeming == {"burnt", "loaded", "verified"}

\* What the tables and the requests hold.
PeopleTyped ==
    /\ users \in [Users -> Records \cup {Nil}]
    /\ denied \subseteq Emails /\ removed \subseteq Users /\ creds \subseteq Users
    /\ accounts \subseteq Links /\ sessions \subseteq Tokens
    /\ registry \in [DynamicProviders -> Configs \cup {Nil}]
    /\ members \subseteq Users \X Channels /\ private \subseteq PrivateChannels
    /\ attempts \in [Attempts -> LoginRows]
    /\ cb \in [Callbacks -> CallbackRows]
    /\ req \in [WebRequests -> RequestRows]

\* The unique indexes hold; nobody on the deny list has a session, and who was
\* removed is on it.
Listed ==
    /\ Unique(users, accounts)
    /\ \A s \in sessions : /\ Person(s.user) /\ s.gen <= users[s.user].gen
                           /\ users[s.user].email \notin denied
    /\ \A u \in removed : Person(u) /\ users[u].email \in denied

\* A callback holds a state nobody else can redeem, and no session came of it yet.
Burnt ==
    /\ \A a \in Attempts : attempts[a].phase # "none" => attempts[a].provider \in Providers
    /\ \A c \in Callbacks :
         /\ cb[c].pc = "idle" => cb[c].attempt = Nil
         /\ cb[c].attempt # Nil => attempts[cb[c].attempt].phase = "gone"
         /\ cb[c].pc \in Redeeming => cb[c].attempt # Nil
         /\ cb[c].pc \in {"loaded", "verified"} => cb[c].config \in Configs
         /\ cb[c].pc = "verified" => cb[c].identity \in Identities
    /\ StateIsBurntOnce
    /\ \A s \in sessions :
         /\ attempts[s.via].phase = "gone"
         /\ \A c \in Callbacks : cb[c].pc \in Redeeming => s.via # cb[c].attempt

\* Who asks is somebody, and credentials of the removed are about to go.
Owed ==
    /\ \A r \in WebRequests : req[r].pc = "resolved" => req[r].actor \in Users /\ Person(req[r].actor)
    /\ \A r \in WebRequests : req[r].pc = "retire" => req[r].actor \in Users
    /\ RetirementIsOwed

\* The store keeps its capacity.
OpenOnes == {a \in Attempts : attempts[a].phase = "open"}
Roomy == Cardinality(OpenOnes) <= Capacity

SignInInv == PeopleTyped /\ Listed /\ Burnt /\ Owed /\ Roomy /\ MembersAreEntitled

-----------------------------------------------------------------------------
(* What a step leaves alone. *)

LEMMA ListedStays ==
    ASSUME Listed, UNCHANGED <<users, denied, removed, accounts, sessions>>
    PROVE  Listed'
  BY DEF Listed, Unique, Person

LEMMA BurntStays ==
    ASSUME Burnt, UNCHANGED <<attempts, cb>>, sessions' \subseteq sessions
    PROVE  Burnt'
  <1>1. StateIsBurntOnce'
    BY DEF Burnt, StateIsBurntOnce
  <1> QED BY <1>1 DEF Burnt

LEMMA OwedStays ==
    ASSUME Owed, UNCHANGED <<removed, creds, req>>, \A u \in Users : Person(u) => Person(u)'
    PROVE  Owed'
  <1>1. RetirementIsOwed'
    BY DEF Owed, RetirementIsOwed
  <1> QED BY <1>1 DEF Owed

LEMMA RoomyStays ==
    ASSUME Roomy, UNCHANGED attempts
    PROVE  Roomy'
  BY DEF Roomy, OpenOnes

\* People and the tables about them are as they were.
LEMMA PeopleStay ==
    ASSUME Listed, Owed, MembersAreEntitled,
           UNCHANGED <<users, denied, removed, accounts, sessions, members, audience, creds, req>>
    PROVE  Listed' /\ Owed' /\ MembersAreEntitled'
  <1>1. Listed'
    BY ListedStays
  <1>2. Owed'
    BY OwedStays DEF Person
  <1>3. MembersAreEntitled'
    BY DEF MembersAreEntitled, Entitled, Person
  <1> QED BY <1>1, <1>2, <1>3

\* The store holds no more than it may when nothing opens.
LEMMA RoomyShrinks ==
    ASSUME SignInAssumption, Roomy, OpenOnes' \subseteq OpenOnes
    PROVE  Roomy'
  <1>1. IsFiniteSet(OpenOnes)
    BY FS_Subset DEF OpenOnes, SignInAssumption
  <1>2. Cardinality(OpenOnes') <= Cardinality(OpenOnes) /\ IsFiniteSet(OpenOnes')
    BY <1>1, FS_Subset
  <1>3. Cardinality(OpenOnes) \in Nat /\ Cardinality(OpenOnes') \in Nat /\ Capacity \in Nat
    BY <1>1, <1>2, FS_CardinalityType DEF SignInAssumption
  <1> QED BY <1>2, <1>3 DEF Roomy

-----------------------------------------------------------------------------
(* Attempts and callbacks. *)

LEMMA StartKeeps ==
    ASSUME SignInAssumption, SignInInv, NEW a \in Attempts, NEW p \in Providers, start(a, p)
    PROVE  SignInInv'
  <1>1. PICK kept : kept = [b \in Attempts |->
                              IF attempts[b].phase = "expired"
                              THEN [attempts[b] EXCEPT !.phase = "gone"] ELSE attempts[b]]
    OBVIOUS
  <1>2. PICK x : x = [phase |-> "open", provider |-> p]
    OBVIOUS
  <1>3. /\ attempts[a].phase = "none" /\ attempts' = [kept EXCEPT ![a] = x]
        /\ Cardinality({b \in Attempts : kept[b].phase = "open"}) < Capacity
        /\ UNCHANGED <<people, accounts, sessions, registry, audience, private, members, creds, cb, req>>
    BY <1>1, <1>2 DEF start
  <1>4. attempts \in [Attempts -> LoginRows]
    BY DEF SignInInv, PeopleTyped
  <1>5. /\ kept \in [Attempts -> LoginRows]
        /\ \A b \in Attempts : /\ kept[b].provider = attempts[b].provider
                               /\ kept[b].phase # "none" => attempts[b].phase # "none"
                               /\ kept[b].phase = "open" <=> attempts[b].phase = "open"
                               /\ attempts[b].phase = "gone" => kept[b].phase = "gone"
    BY <1>1, <1>4 DEF LoginRows
  <1>6. x \in LoginRows /\ x.phase = "open" /\ x.provider = p
    BY <1>2 DEF LoginRows
  <1>7. /\ attempts' \in [Attempts -> LoginRows] /\ attempts'[a] = x
        /\ \A b \in Attempts : b # a => attempts'[b] = kept[b]
    BY <1>3, <1>5, <1>6
  <1>8. PeopleTyped'
    BY <1>3, <1>7 DEF people, SignInInv, PeopleTyped
  <1>9. Burnt'
    <2>1. \A c \in Callbacks : cb[c].attempt # Nil =>
            cb[c].attempt \in Attempts /\ attempts[cb[c].attempt].phase = "gone"
      BY DEF SignInInv, PeopleTyped, CallbackRows, Burnt
    <2>2. \A s \in sessions : s.via \in Attempts /\ attempts[s.via].phase = "gone"
      BY DEF SignInInv, PeopleTyped, Tokens, Burnt
    <2>3. \A b \in Attempts : attempts[b].phase = "gone" => attempts'[b].phase = "gone"
      BY <1>3, <1>5, <1>7
    <2>4. \A b \in Attempts : attempts'[b].phase # "none" => attempts'[b].provider \in Providers
      BY <1>5, <1>6, <1>7 DEF SignInInv, Burnt
    <2>5. StateIsBurntOnce'
      BY <1>3 DEF SignInInv, Burnt, StateIsBurntOnce
    <2> QED BY <1>3, <2>1, <2>2, <2>3, <2>4, <2>5 DEF people, SignInInv, Burnt
  <1>10. Listed' /\ Owed' /\ MembersAreEntitled'
    BY <1>3, PeopleStay DEF people, SignInInv
  <1>11. Roomy'
    <2>1. PICK K : K = {b \in Attempts : kept[b].phase = "open"}
      OBVIOUS
    <2>2. OpenOnes' = K \cup {a} /\ K = OpenOnes /\ a \notin K
      BY <1>3, <1>5, <1>6, <1>7, <2>1 DEF OpenOnes
    <2>3. IsFiniteSet(K)
      BY <2>1, FS_Subset DEF SignInAssumption
    <2>4. Cardinality(OpenOnes') = Cardinality(K) + 1 /\ Cardinality(K) \in Nat
      BY <2>2, <2>3, FS_AddElement, FS_CardinalityType
    <2> QED BY <1>3, <2>1, <2>4 DEF Roomy, SignInAssumption
  <1> QED BY <1>8, <1>9, <1>10, <1>11 DEF SignInInv

\* An attempt that is over or burnt.
LEMMA AttemptEnds ==
    ASSUME SignInAssumption, SignInInv, NEW a \in Attempts, NEW h \in {"expired", "gone"},
           attempts[a].phase \in {"open", "expired"},
           attempts' = [attempts EXCEPT ![a].phase = h]
    PROVE  /\ attempts' \in [Attempts -> LoginRows] /\ attempts'[a].phase = h /\ Roomy'
           /\ \A b \in Attempts : attempts'[b].phase # "none" => attempts'[b].provider \in Providers
           /\ \A b \in Attempts : attempts[b].phase = "gone" => attempts'[b].phase = "gone"
  <1>1. attempts \in [Attempts -> LoginRows]
    BY DEF SignInInv, PeopleTyped
  <1>2. PICK x : x = [attempts[a] EXCEPT !.phase = h]
    OBVIOUS
  <1>3. x \in LoginRows /\ x.phase = h /\ x.provider = attempts[a].provider
    BY <1>1, <1>2 DEF LoginRows
  <1>4. /\ attempts' \in [Attempts -> LoginRows] /\ attempts'[a] = x
        /\ \A b \in Attempts : b # a => attempts'[b] = attempts[b]
    BY <1>1, <1>2, <1>3
  <1>5. Roomy'
    <2>1. OpenOnes' \subseteq OpenOnes
      BY <1>3, <1>4 DEF OpenOnes
    <2> QED BY <2>1, RoomyShrinks DEF SignInInv
  <1>6. \A b \in Attempts : attempts'[b].phase # "none" => attempts'[b].provider \in Providers
    BY <1>3, <1>4 DEF SignInInv, Burnt
  <1>7. \A b \in Attempts : attempts[b].phase = "gone" => attempts'[b].phase = "gone"
    BY <1>4
  <1> QED BY <1>3, <1>4, <1>5, <1>6, <1>7

LEMMA ExpireKeeps ==
    ASSUME SignInAssumption, SignInInv, NEW a \in Attempts, expire(a)
    PROVE  SignInInv'
  <1>1. /\ attempts' \in [Attempts -> LoginRows] /\ Roomy'
        /\ \A b \in Attempts : attempts'[b].phase # "none" => attempts'[b].provider \in Providers
        /\ \A b \in Attempts : attempts[b].phase = "gone" => attempts'[b].phase = "gone"
    BY AttemptEnds DEF expire
  <1>2. UNCHANGED <<people, accounts, sessions, registry, audience, private, members, creds, cb, req>>
    BY DEF expire
  <1>3. PeopleTyped'
    BY <1>1, <1>2 DEF people, SignInInv, PeopleTyped
  <1>4. Burnt'
    <2>1. \A c \in Callbacks : cb[c].attempt # Nil =>
            cb[c].attempt \in Attempts /\ attempts[cb[c].attempt].phase = "gone"
      BY DEF SignInInv, PeopleTyped, CallbackRows, Burnt
    <2>2. \A s \in sessions : s.via \in Attempts /\ attempts[s.via].phase = "gone"
      BY DEF SignInInv, PeopleTyped, Tokens, Burnt
    <2>3. StateIsBurntOnce'
      BY <1>2 DEF SignInInv, Burnt, StateIsBurntOnce
    <2> QED BY <1>1, <1>2, <2>1, <2>2, <2>3 DEF people, SignInInv, Burnt
  <1>5. Listed' /\ Owed' /\ MembersAreEntitled'
    BY <1>2, PeopleStay DEF people, SignInInv
  <1> QED BY <1>1, <1>3, <1>4, <1>5 DEF SignInInv

\* Whoever presents a state first burns it.
LEMMA BeginKeeps ==
    ASSUME SignInAssumption, SignInInv, NEW c \in Callbacks, NEW a \in Attempts,
           begin_callback(c, a)
    PROVE  SignInInv'
  <1>1. /\ attempts' \in [Attempts -> LoginRows] /\ attempts'[a].phase = "gone" /\ Roomy'
        /\ \A b \in Attempts : attempts'[b].phase # "none" => attempts'[b].provider \in Providers
        /\ \A b \in Attempts : attempts[b].phase = "gone" => attempts'[b].phase = "gone"
    BY AttemptEnds DEF begin_callback, ConsumedRow
  <1>2. PICK x : x = [cb[c] EXCEPT !.pc = IF attempts[a].phase = "open" THEN "burnt" ELSE "failed",
                                   !.attempt = IF attempts[a].phase = "open" THEN a ELSE Nil]
    OBVIOUS
  <1>3. /\ cb[c].pc = "idle" /\ attempts[a].phase \in {"open", "expired"}
        /\ cb' = [cb EXCEPT ![c] = x]
        /\ UNCHANGED <<people, accounts, sessions, registry, audience, private, members, creds, req>>
    BY <1>2 DEF begin_callback
  <1>4. cb \in [Callbacks -> CallbackRows]
    BY DEF SignInInv, PeopleTyped
  <1>5. /\ x \in CallbackRows
        /\ \/ x.pc = "burnt" /\ x.attempt = a
           \/ x.pc = "failed" /\ x.attempt = Nil
    BY <1>2, <1>4 DEF CallbackRows
  <1>6. /\ cb' \in [Callbacks -> CallbackRows] /\ cb'[c] = x
        /\ \A d \in Callbacks : d # c => cb'[d] = cb[d]
    BY <1>3, <1>4, <1>5
  <1>7. PeopleTyped'
    BY <1>1, <1>3, <1>6 DEF people, SignInInv, PeopleTyped
  <1>8. Burnt'
    <2>1. \A d \in Callbacks : cb[d].attempt # Nil =>
            cb[d].attempt \in Attempts /\ cb[d].attempt # a /\ attempts[cb[d].attempt].phase = "gone"
      BY <1>3 DEF SignInInv, PeopleTyped, CallbackRows, Burnt
    <2>2. \A s \in sessions : s.via \in Attempts /\ s.via # a /\ attempts[s.via].phase = "gone"
      BY <1>3 DEF SignInInv, PeopleTyped, Tokens, Burnt
    <2>3. StateIsBurntOnce'
      BY <1>5, <1>6, <2>1 DEF SignInInv, Burnt, StateIsBurntOnce
    <2>4. a # Nil
      BY DEF SignInAssumption
    <2>5. \A d \in Callbacks :
            /\ cb'[d].pc = "idle" => cb'[d].attempt = Nil
            /\ cb'[d].attempt # Nil => attempts'[cb'[d].attempt].phase = "gone"
            /\ cb'[d].pc \in Redeeming => cb'[d].attempt # Nil
            /\ cb'[d].pc \in {"loaded", "verified"} => cb'[d].config \in Configs
            /\ cb'[d].pc = "verified" => cb'[d].identity \in Identities
      BY <1>1, <1>5, <1>6, <2>1, <2>4 DEF SignInInv, Burnt, Redeeming
    <2>6. \A s \in sessions' :
            /\ attempts'[s.via].phase = "gone"
            /\ \A d \in Callbacks : cb'[d].pc \in Redeeming => s.via # cb'[d].attempt
      BY <1>1, <1>3, <1>5, <1>6, <2>2 DEF SignInInv, Burnt, Redeeming
    <2> QED BY <1>1, <2>3, <2>5, <2>6 DEF Burnt
  <1>9. Listed' /\ Owed' /\ MembersAreEntitled'
    BY <1>3, PeopleStay DEF people, SignInInv
  <1> QED BY <1>1, <1>7, <1>8, <1>9 DEF SignInInv

\* A callback goes on with the state it burnt, or gives it up.
LEMMA CallbackMoves ==
    ASSUME SignInInv, NEW c \in Callbacks, NEW x \in CallbackRows, cb' = [cb EXCEPT ![c] = x],
           x.attempt = cb[c].attempt, x.pc # "idle",
           x.pc \in Redeeming => cb[c].pc \in Redeeming,
           x.pc \in {"loaded", "verified"} => x.config \in Configs,
           x.pc = "verified" => x.identity \in Identities,
           UNCHANGED attempts, sessions' \subseteq sessions
    PROVE  cb' \in [Callbacks -> CallbackRows] /\ Burnt'
  <1>1. /\ cb' \in [Callbacks -> CallbackRows] /\ cb'[c] = x
        /\ \A d \in Callbacks : d # c => cb'[d] = cb[d]
    BY DEF SignInInv, PeopleTyped
  <1>2. StateIsBurntOnce'
    BY <1>1 DEF SignInInv, Burnt, StateIsBurntOnce
  <1>3. \A d \in Callbacks :
          /\ cb'[d].pc = "idle" => cb'[d].attempt = Nil
          /\ cb'[d].attempt # Nil => attempts'[cb'[d].attempt].phase = "gone"
          /\ cb'[d].pc \in Redeeming => cb'[d].attempt # Nil
          /\ cb'[d].pc \in {"loaded", "verified"} => cb'[d].config \in Configs
          /\ cb'[d].pc = "verified" => cb'[d].identity \in Identities
    BY <1>1 DEF SignInInv, Burnt
  <1>4. \A s \in sessions' :
          /\ attempts'[s.via].phase = "gone"
          /\ \A d \in Callbacks : cb'[d].pc \in Redeeming => s.via # cb'[d].attempt
    BY <1>1 DEF SignInInv, Burnt
  <1> QED BY <1>1, <1>2, <1>3, <1>4 DEF SignInInv, Burnt

\* The same, when nothing else happens.
LEMMA CallbackKeeps ==
    ASSUME SignInInv, NEW c \in Callbacks, NEW x \in CallbackRows, cb' = [cb EXCEPT ![c] = x],
           x.attempt = cb[c].attempt, x.pc # "idle",
           x.pc \in Redeeming => cb[c].pc \in Redeeming,
           x.pc \in {"loaded", "verified"} => x.config \in Configs,
           x.pc = "verified" => x.identity \in Identities,
           UNCHANGED <<people, accounts, sessions, registry, audience, private, members, creds, attempts, req>>
    PROVE  SignInInv'
  <1>1. cb' \in [Callbacks -> CallbackRows] /\ Burnt'
    BY CallbackMoves
  <1>2. PeopleTyped'
    BY <1>1 DEF people, SignInInv, PeopleTyped
  <1>3. Listed' /\ Owed' /\ MembersAreEntitled'
    BY PeopleStay DEF people, SignInInv
  <1>4. Roomy'
    BY RoomyStays DEF SignInInv
  <1> QED BY <1>1, <1>2, <1>3, <1>4 DEF SignInInv

LEMMA RuntimeLoadKeeps ==
    ASSUME SignInAssumption, SignInInv, NEW c \in Callbacks, load_runtime(c)
    PROVE  SignInInv'
  <1>1. PICK p, x : /\ p = attempts[cb[c].attempt].provider
                    /\ x = (IF ConfigOf(p) = Nil THEN [cb[c] EXCEPT !.pc = "failed"]
                            ELSE [cb[c] EXCEPT !.pc = "loaded", !.config = ConfigOf(p)])
    OBVIOUS
  <1>2. /\ cb[c].pc = "burnt" /\ cb' = [cb EXCEPT ![c] = x]
        /\ UNCHANGED <<people, accounts, sessions, registry, audience, private, members, creds, attempts, req>>
    BY <1>1 DEF load_runtime
  <1>3. cb[c] \in CallbackRows /\ cb[c].attempt \in Attempts
    BY <1>2 DEF SignInInv, PeopleTyped, Burnt, CallbackRows, Redeeming
  <1>4. attempts[cb[c].attempt].phase = "gone"
    BY <1>2 DEF SignInInv, Burnt, Redeeming
  <1>5. p \in Providers
    BY <1>1, <1>3, <1>4 DEF SignInInv, Burnt
  <1>6. ConfigOf(p) \in Configs \cup {Nil}
    BY <1>5 DEF ConfigOf, Providers, SignInInv, PeopleTyped, SignInAssumption
  <1>7. CASE ConfigOf(p) = Nil
    <2>1. x \in CallbackRows /\ x.pc = "failed" /\ x.attempt = cb[c].attempt
      BY <1>1, <1>3, <1>7 DEF CallbackRows
    <2> QED BY <1>2, <2>1, CallbackKeeps DEF Redeeming
  <1>8. CASE ConfigOf(p) # Nil
    <2>1. /\ x \in CallbackRows /\ x.pc = "loaded" /\ x.attempt = cb[c].attempt
          /\ x.config \in Configs
      BY <1>1, <1>3, <1>6, <1>8 DEF CallbackRows
    <2> QED BY <1>2, <2>1, CallbackKeeps DEF Redeeming
  <1> QED BY <1>7, <1>8

LEMMA VerifyKeeps ==
    ASSUME SignInInv, NEW c \in Callbacks, NEW id \in Identities, verify(c, id)
    PROVE  SignInInv'
  <1>1. PICK x : x = [cb[c] EXCEPT !.pc = "verified", !.identity = id]
    OBVIOUS
  <1>2. cb[c] \in CallbackRows /\ cb \in [Callbacks -> CallbackRows]
    BY DEF SignInInv, PeopleTyped
  <1>3. /\ cb[c].pc = "loaded" /\ cb' = [cb EXCEPT ![c] = x]
        /\ UNCHANGED <<people, accounts, sessions, registry, audience, private, members, creds, attempts, req>>
    BY <1>1, <1>2 DEF verify, CallbackRows
  <1>4. /\ x \in CallbackRows /\ x.pc = "verified" /\ x.attempt = cb[c].attempt
        /\ x.identity = id /\ x.config = cb[c].config
    BY <1>1, <1>2 DEF CallbackRows
  <1>5. cb[c].config \in Configs
    BY <1>3 DEF SignInInv, Burnt
  <1> QED BY <1>3, <1>4, <1>5, CallbackKeeps DEF Redeeming

LEMMA EndsKeep ==
    ASSUME SignInInv, NEW c \in Callbacks, NEW how \in {"failed", "corrupt", "signed_in"},
           CallbackEnds(c, how),
           UNCHANGED <<people, accounts, sessions, registry, audience, private, members, creds, attempts, req>>
    PROVE  SignInInv'
  <1>1. PICK x : x = [NoCallback EXCEPT !.pc = how, !.attempt = cb[c].attempt]
    OBVIOUS
  <1>2. cb' = [cb EXCEPT ![c] = x] /\ cb[c] \in CallbackRows
    BY <1>1 DEF CallbackEnds, SignInInv, PeopleTyped
  <1>3. x \in CallbackRows /\ x.pc = how /\ x.attempt = cb[c].attempt
    BY <1>1, <1>2 DEF NoCallback, CallbackRows
  <1> QED BY <1>2, <1>3, CallbackKeeps DEF Redeeming

LEMMA AbandonKeeps ==
    ASSUME SignInInv, NEW c \in Callbacks, abandon(c)
    PROVE  SignInInv'
  BY EndsKeep DEF abandon

-----------------------------------------------------------------------------
(* A sign-in. *)

\* The one person a sign-in may be: whom its subject is anchored to, and nobody
\* else holds the address.
LEMMA TheOnePerson ==
    ASSUME PeopleTyped, Listed, NEW p, NEW id \in Identities, NEW config,
           NEW u \in Candidates(p, id), ~Conflict(p, config, id, u)
    PROVE  /\ u \in Users
           /\ \A v \in Users : Person(v) /\ users[v].email = id.email => v = u
           /\ \A a \in Anchors(p, id.subject) : a.user = u
           /\ ~Person(u) => Anchors(p, id.subject) = {}
  <1>1. \A a \in accounts : a.user \in Users /\ Person(a.user)
    BY DEF PeopleTyped, Links, Listed, Unique, Person
  <1>2. \A a, b \in Anchors(p, id.subject) : a = b
    BY DEF Anchors, Listed, Unique
  <1>3. CASE Anchors(p, id.subject) # {}
    <2>1. PICK a \in Anchors(p, id.subject) : u = a.user
      BY <1>3 DEF Candidates
    <2>2. u \in Users /\ Person(u)
      BY <1>1, <2>1 DEF Anchors
    <2>3. HoldersOf(id.email) \ {u} = {}
      BY <2>2 DEF Conflict
    <2> QED BY <1>2, <2>1, <2>2, <2>3 DEF HoldersOf
  <1>4. CASE Anchors(p, id.subject) = {} /\ HoldersOf(id.email) # {}
    <2>1. u \in HoldersOf(id.email)
      BY <1>4 DEF Candidates
    <2>2. u \in Users /\ Person(u) /\ HoldersOf(id.email) \ {u} = {}
      BY <2>1 DEF HoldersOf, Conflict
    <2> QED BY <1>4, <2>2 DEF HoldersOf
  <1>5. CASE Anchors(p, id.subject) = {} /\ HoldersOf(id.email) = {}
    BY <1>5 DEF Candidates, HoldersOf
  <1> QED BY <1>3, <1>4, <1>5

\* Where the generation of a sign-in goes: it advances with every session the
\* sign-in ends, and the new session has the generation the person is left with.
LEMMA Minted ==
    ASSUME SignInAssumption, PeopleTyped, NEW c \in Callbacks, NEW u \in Users,
           cb[c].identity \in Identities, issued(c, u)
    PROVE  \E x \in Records :
             /\ x.email = cb[c].identity.email /\ x.groups = cb[c].identity.groups
             /\ x.role = RoleAtSignIn(cb[c].identity, u) /\ x.gen >= GenBefore(u)
             /\ users' = [users EXCEPT ![u] = x]
             /\ [user |-> u, gen |-> x.gen, via |-> cb[c].attempt] \in sessions'
             /\ \A s \in sessions' :
                  \/ s = [user |-> u, gen |-> x.gen, via |-> cb[c].attempt]
                  \/ s \in sessions /\ (s.user = u => x.gen = GenBefore(u))
  <1> DEFINE id == cb[c].identity
             changed == \/ Person(u) /\ users[u].email # id.email
                        \/ Person(u) /\ RoleAtSignIn(id, u) # users[u].role
                        \/ MemberOf(u) \ Projected(id) # {}
             new(g) == [email |-> id.email, role |-> RoleAtSignIn(id, u), gen |-> g, groups |-> id.groups]
             token(g) == [user |-> u, gen |-> g, via |-> cb[c].attempt]
  <1>1. GenBefore(u) \in Nat /\ MaxAuthGen \in Nat
    BY DEF GenBefore, Person, PeopleTyped, Records, SignInAssumption
  <1>2. RoleAtSignIn(id, u) \in {"admin", "user"}
    BY DEF RoleAtSignIn, Person, PeopleTyped, Records
  <1>3. id.email \in Emails /\ id.groups \in SUBSET Groups
    BY DEF Identities
  <1>4. ASSUME NEW g \in Nat, g <= MaxAuthGen, g >= GenBefore(u), users' = [users EXCEPT ![u] = new(g)],
               token(g) \in sessions',
               \A s \in sessions' : \/ s = token(g)
                                    \/ s \in sessions /\ (s.user = u => g = GenBefore(u))
        PROVE  \E x \in Records :
                 /\ x.email = cb[c].identity.email /\ x.groups = cb[c].identity.groups
                 /\ x.role = RoleAtSignIn(cb[c].identity, u) /\ x.gen >= GenBefore(u)
                 /\ users' = [users EXCEPT ![u] = x]
                 /\ [user |-> u, gen |-> x.gen, via |-> cb[c].attempt] \in sessions'
                 /\ \A s \in sessions' :
                      \/ s = [user |-> u, gen |-> x.gen, via |-> cb[c].attempt]
                      \/ s \in sessions /\ (s.user = u => x.gen = GenBefore(u))
    <2>1. PICK x : x = new(g)
      OBVIOUS
    <2>2. g \in 0..MaxAuthGen
      BY <1>1, <1>4
    <2>3. x \in Records /\ x.gen = g /\ x.email = id.email /\ x.groups = id.groups
          /\ x.role = RoleAtSignIn(id, u)
      BY <1>2, <1>3, <2>1, <2>2 DEF Records
    <2> QED BY <1>4, <2>1, <2>3
  <1>5. CASE changed
    <2>1. GenAfter(u, changed) = GenBefore(u) + 1
      BY <1>5 DEF GenAfter
    <2>2. MintedGen(u, changed) = GenBefore(u) + 1
      BY <2>1 DEF MintedGen
    <2>3. /\ GenBefore(u) + 1 <= MaxAuthGen
          /\ users' = [users EXCEPT ![u] = new(GenBefore(u) + 1)]
          /\ sessions' = {s \in sessions : ~(changed /\ s.user = u)} \cup {token(GenBefore(u) + 1)}
      BY <2>1, <2>2 DEF issued
    <2> HIDE DEF changed, new, token
    <2>4. \A s \in sessions' : \/ s = token(GenBefore(u) + 1)
                               \/ s \in sessions /\ (s.user = u => GenBefore(u) + 1 = GenBefore(u))
      BY <1>5, <2>3
    <2>5. GenBefore(u) + 1 \in Nat /\ GenBefore(u) + 1 >= GenBefore(u) /\ token(GenBefore(u) + 1) \in sessions'
      BY <1>1, <2>3
    <2> QED BY <1>4, <2>3, <2>4, <2>5
  <1>6. CASE ~changed
    <2>1. GenAfter(u, changed) = GenBefore(u)
      BY <1>6 DEF GenAfter
    <2>2. MintedGen(u, changed) = GenBefore(u)
      BY <2>1 DEF MintedGen
    <2>3. /\ GenBefore(u) <= MaxAuthGen
          /\ users' = [users EXCEPT ![u] = new(GenBefore(u))]
          /\ sessions' = {s \in sessions : ~(changed /\ s.user = u)} \cup {token(GenBefore(u))}
      BY <2>1, <2>2 DEF issued
    <2> HIDE DEF changed, new, token
    <2>4. \A s \in sessions' : \/ s = token(GenBefore(u))
                               \/ s \in sessions /\ (s.user = u => GenBefore(u) = GenBefore(u))
      BY <1>6, <2>3
    <2>5. GenBefore(u) >= GenBefore(u) /\ token(GenBefore(u)) \in sessions'
      BY <1>1, <2>3
    <2> QED BY <1>1, <1>4, <2>3, <2>4, <2>5
  <1> QED BY <1>5, <1>6

\* What is known of a sign-in that succeeds, before and after.
SignedIn(c, u) ==
    /\ u \in Users /\ users'[u] # Nil /\ users'[u].email \notin denied'
    /\ \A v \in Users : v # u => users'[v] = users[v]
    /\ Person(u) => users'[u].gen >= users[u].gen /\ (users[u].role = "admin" => users'[u].role = "admin")
    /\ \A s \in sessions' :
          \/ s = [user |-> u, gen |-> users'[u].gen, via |-> cb[c].attempt]
          \/ s \in sessions /\ s.via # cb[c].attempt
    /\ \A a \in accounts' : a.provider = attempts[cb[c].attempt].provider
                            /\ a.subject = cb[c].identity.subject => a.user = u
    /\ denied' = denied
    /\ \A d \in Callbacks : d # c => cb'[d] = cb[d]

LEMMA IssueKeeps ==
    ASSUME SignInAssumption, SignInInv, NEW c \in Callbacks, cb[c].pc = "verified",
           NEW u \in Candidates(attempts[cb[c].attempt].provider, cb[c].identity),
           ~Conflict(attempts[cb[c].attempt].provider, cb[c].config, cb[c].identity, u),
           ~Denied(cb[c].identity, u), issued(c, u),
           UNCHANGED <<registry, audience, private, creds, attempts, req>>
    PROVE  SignInInv' /\ SignedIn(c, u)
  <1>1. PICK id, p, t : id = cb[c].identity /\ p = attempts[cb[c].attempt].provider /\ t = cb[c].attempt
    OBVIOUS
  <1>2. /\ id \in Identities /\ p \in Providers /\ cb[c].config \in Configs /\ t \in Attempts
        /\ attempts[t].phase = "gone" /\ t # Nil
    <2>1. id \in Identities /\ t \in Attempts /\ t # Nil /\ attempts[t].phase = "gone" /\ cb[c].config \in Configs
      BY <1>1 DEF SignInInv, PeopleTyped, CallbackRows, Burnt, Redeeming
    <2> QED BY <1>1, <2>1 DEF SignInInv, Burnt
  <1>3. /\ u \in Users
        /\ \A v \in Users : Person(v) /\ users[v].email = id.email => v = u
        /\ \A a \in Anchors(p, id.subject) : a.user = u
        /\ ~Person(u) => Anchors(p, id.subject) = {}
    BY <1>1, <1>2, TheOnePerson DEF SignInInv
  <1>4. id.email \notin denied /\ (Person(u) => users[u].email \notin denied) /\ u \notin removed
    BY <1>1 DEF Denied, StoredMail, SignInInv, Listed
  <1>5. PICK x \in Records :
          /\ x.email = id.email /\ x.groups = id.groups
          /\ x.role = RoleAtSignIn(id, u) /\ x.gen >= GenBefore(u)
          /\ users' = [users EXCEPT ![u] = x]
          /\ [user |-> u, gen |-> x.gen, via |-> t] \in sessions'
          /\ \A s \in sessions' :
               \/ s = [user |-> u, gen |-> x.gen, via |-> t]
               \/ s \in sessions /\ (s.user = u => x.gen = GenBefore(u))
    BY <1>1, <1>2, <1>3, Minted DEF SignInInv
  <1>6. PICK n : n = [provider |-> p, subject |-> id.subject, user |-> u, issuer |-> cb[c].config.issuer]
    OBVIOUS
  <1>7. /\ accounts' = IF Anchors(p, id.subject) # {} THEN accounts ELSE accounts \cup {n}
        /\ members' = SettledMembership(u, id)
        /\ CallbackEnds(c, "signed_in")
        /\ UNCHANGED <<denied, removed, registry, audience, private, creds, attempts, req>>
    BY <1>1, <1>6 DEF issued
  <1>8. /\ n \in Links /\ n.provider = p /\ n.subject = id.subject /\ n.user = u
    BY <1>2, <1>3, <1>6 DEF Links, Identities
  <1>9. users \in [Users -> Records \cup {Nil}] /\ sessions \subseteq Tokens
    BY DEF SignInInv, PeopleTyped
  <1>10. /\ users' \in [Users -> Records \cup {Nil}] /\ users'[u] = x /\ x # Nil
         /\ \A v \in Users : v # u => users'[v] = users[v]
    BY <1>3, <1>5, <1>9 DEF SignInAssumption
  <1>11. PICK y : y = [NoCallback EXCEPT !.pc = "signed_in", !.attempt = t]
    OBVIOUS
  <1>12. /\ y \in CallbackRows /\ y.pc = "signed_in" /\ y.attempt = t
         /\ cb' = [cb EXCEPT ![c] = y] /\ cb \in [Callbacks -> CallbackRows]
    BY <1>1, <1>2, <1>7, <1>11 DEF CallbackEnds, NoCallback, CallbackRows, SignInInv, PeopleTyped
  <1>13. /\ cb' \in [Callbacks -> CallbackRows] /\ cb'[c] = y
         /\ \A d \in Callbacks : d # c => cb'[d] = cb[d]
    BY <1>12
  <1>14. \A s \in sessions' : s \in Tokens
    BY <1>2, <1>3, <1>5, <1>9 DEF Tokens, Records
  <1>15. PeopleTyped'
    <2>1. accounts' \subseteq Links
      BY <1>7, <1>8 DEF SignInInv, PeopleTyped
    <2>2. members' \subseteq Users \X Channels
      BY <1>3, <1>7 DEF SettledMembership, Projected, Channels, SignInInv, PeopleTyped
    <2> QED BY <1>7, <1>10, <1>13, <1>14, <2>1, <2>2 DEF SignInInv, PeopleTyped
  <1>16. Person(u) => x.gen >= users[u].gen
    BY <1>5 DEF GenBefore
  <1>17. Listed'
    <2>1. \A v, w \in Users : users'[v] # Nil /\ users'[w] # Nil /\ users'[v].email = users'[w].email => v = w
      BY <1>3, <1>5, <1>10 DEF SignInInv, Listed, Unique, Person
    <2>2. \A a, b \in accounts' : a.provider = b.provider /\ a.subject = b.subject => a = b
      BY <1>7, <1>8 DEF SignInInv, Listed, Unique, Anchors
    <2>3. \A a \in accounts' : users'[a.user] # Nil
      <3>1. \A a \in accounts : a.user \in Users /\ users[a.user] # Nil
        BY DEF SignInInv, PeopleTyped, Links, Listed, Unique
      <3> QED BY <1>7, <1>8, <1>10, <3>1
    <2>4. \A s \in sessions' : users'[s.user] # Nil /\ s.gen <= users'[s.user].gen /\ users'[s.user].email \notin denied
      <3> TAKE s \in sessions'
      <3>1. CASE s = [user |-> u, gen |-> x.gen, via |-> t]
        BY <1>4, <1>5, <1>10, <3>1 DEF Records, SignInAssumption
      <3>2. CASE s \in sessions /\ (s.user = u => x.gen = GenBefore(u))
        <4>1. s.user \in Users /\ Person(s.user) /\ s.gen <= users[s.user].gen /\ users[s.user].email \notin denied
          BY <1>9, <3>2 DEF Tokens, SignInInv, Listed
        <4>2. CASE s.user = u
          BY <1>4, <1>5, <1>10, <3>2, <4>1, <4>2 DEF GenBefore
        <4>3. CASE s.user # u
          BY <1>10, <4>1, <4>3 DEF Person
        <4> QED BY <4>2, <4>3
      <3> QED BY <1>5, <3>1, <3>2
    <2>5. \A v \in removed : users'[v] # Nil /\ users'[v].email \in denied
      BY <1>4, <1>10 DEF SignInInv, PeopleTyped, Listed, Person
    <2> QED BY <1>7, <2>1, <2>2, <2>3, <2>4, <2>5 DEF Listed, Unique, Person
  <1>18. \A s \in sessions' : \/ s = [user |-> u, gen |-> x.gen, via |-> t]
                              \/ s \in sessions /\ s.via # t
    BY <1>1, <1>5 DEF SignInInv, Burnt, Redeeming
  <1>19. Burnt'
    <2>1. StateIsBurntOnce'
      BY <1>1, <1>12, <1>13 DEF SignInInv, Burnt, StateIsBurntOnce
    <2>2. \A d \in Callbacks :
            /\ cb'[d].pc = "idle" => cb'[d].attempt = Nil
            /\ cb'[d].attempt # Nil => attempts'[cb'[d].attempt].phase = "gone"
            /\ cb'[d].pc \in Redeeming => cb'[d].attempt # Nil
            /\ cb'[d].pc \in {"loaded", "verified"} => cb'[d].config \in Configs
            /\ cb'[d].pc = "verified" => cb'[d].identity \in Identities
      BY <1>2, <1>7, <1>12, <1>13 DEF SignInInv, Burnt, Redeeming
    <2>3. \A s \in sessions' :
            /\ attempts'[s.via].phase = "gone"
            /\ \A d \in Callbacks : cb'[d].pc \in Redeeming => s.via # cb'[d].attempt
      <3>1. \A d \in Callbacks : cb'[d].pc \in Redeeming => d # c /\ cb'[d].attempt # t
        BY <1>1, <1>2, <1>12, <1>13 DEF SignInInv, Burnt, StateIsBurntOnce, Redeeming
      <3>2. \A s \in sessions : \A d \in Callbacks : d # c /\ cb'[d].pc \in Redeeming => s.via # cb'[d].attempt
        BY <1>13 DEF SignInInv, Burnt
      <3>3. \A s \in sessions : attempts[s.via].phase = "gone"
        BY DEF SignInInv, Burnt
      <3> QED BY <1>2, <1>7, <1>18, <3>1, <3>2, <3>3
    <2> QED BY <1>7, <2>1, <2>2, <2>3 DEF SignInInv, Burnt
  <1>20. Owed'
    <2>1. \A v \in Users : Person(v) => Person(v)'
      BY <1>10 DEF Person
    <2> QED BY <1>7, <2>1, OwedStays DEF SignInInv
  <1>21. Roomy'
    BY <1>7, RoomyStays DEF SignInInv
  <1>22. MembersAreEntitled'
    <2>1. \A m \in members' : m[2] \in PackageChannels => (Person(m[1]) /\ Entitled(users[m[1]].groups, m[2]))'
      <3> SUFFICES ASSUME NEW m \in members', m[2] \in PackageChannels
                   PROVE  (Person(m[1]) /\ Entitled(users[m[1]].groups, m[2]))'
        OBVIOUS
      <3>1. CASE m[1] = u
        <4>1. Entitled(id.groups, m[2])
          BY <1>7, <3>1 DEF SettledMembership, Projected
        <4> QED BY <1>5, <1>7, <1>10, <3>1, <4>1 DEF Entitled, Person
      <3>2. CASE m[1] # u
        <4>1. m \in members /\ m[1] \in Users
          BY <1>7, <3>2 DEF SettledMembership, SignInInv, PeopleTyped
        <4>2. users[m[1]] # Nil /\ Entitled(users[m[1]].groups, m[2])
          BY <4>1 DEF SignInInv, MembersAreEntitled, Person
        <4> QED BY <1>7, <1>10, <3>2, <4>1, <4>2 DEF Entitled, Person
      <3> QED BY <3>1, <3>2
    <2> QED BY <2>1 DEF MembersAreEntitled
  <1>23. Person(u) => (users[u].role = "admin" => x.role = "admin")
    BY <1>5 DEF RoleAtSignIn
  <1>24. \A a \in accounts' : a.provider = p /\ a.subject = id.subject => a.user = u
    BY <1>3, <1>7, <1>8 DEF Anchors
  <1> QED BY <1>1, <1>3, <1>4, <1>5, <1>7, <1>10, <1>13, <1>15, <1>16, <1>17, <1>18, <1>19, <1>20, <1>21, <1>22, <1>23, <1>24 DEF SignInInv, SignedIn

LEMMA FederatedKeeps ==
    ASSUME SignInAssumption, SignInInv, NEW c \in Callbacks, issue_federated(c)
    PROVE  SignInInv'
  <1>1. PICK u \in Candidates(attempts[cb[c].attempt].provider, cb[c].identity) :
          IF \/ Conflict(attempts[cb[c].attempt].provider, cb[c].config, cb[c].identity, u)
             \/ Denied(cb[c].identity, u)
          THEN CallbackEnds(c, "failed") /\ UNCHANGED <<people, accounts, sessions, members>>
          ELSE IF ~AudiencesParse
          THEN CallbackEnds(c, "corrupt") /\ UNCHANGED <<people, accounts, sessions, members>>
          ELSE issued(c, u)
    BY DEF issue_federated
  <1>2. cb[c].pc = "verified" /\ UNCHANGED <<registry, audience, private, creds, attempts, req>>
    BY DEF issue_federated
  <1>3. CASE /\ CallbackEnds(c, "failed") \/ CallbackEnds(c, "corrupt")
             /\ UNCHANGED <<people, accounts, sessions, members>>
    BY <1>2, <1>3, EndsKeep
  <1>4. CASE /\ ~Conflict(attempts[cb[c].attempt].provider, cb[c].config, cb[c].identity, u)
             /\ ~Denied(cb[c].identity, u) /\ issued(c, u)
    BY <1>2, <1>4, IssueKeeps
  <1> QED BY <1>1, <1>3, <1>4

-----------------------------------------------------------------------------
(* What requests and the package do to people: names stay, generations grow. *)

SamePeople ==
    \A v \in Users :
        /\ users'[v] = Nil <=> users[v] = Nil
        /\ users[v] # Nil => /\ users'[v].email = users[v].email
                             /\ users'[v].groups = users[v].groups
                             /\ users'[v].gen >= users[v].gen

LEMMA ListedAfter ==
    ASSUME SignInInv, users' \in [Users -> Records \cup {Nil}], SamePeople,
           accounts' \subseteq accounts, sessions' \subseteq sessions,
           \A s \in sessions' : users[s.user].email \notin denied',
           \A u \in removed' : u \in Users /\ Person(u) /\ users[u].email \in denied'
    PROVE  Listed'
  <1>1. \A a \in accounts : a.user \in Users /\ users[a.user] # Nil
    BY DEF SignInInv, PeopleTyped, Links, Listed, Unique
  <1>2. Unique(users, accounts)'
    BY <1>1 DEF SamePeople, SignInInv, Listed, Unique
  <1>3. \A s \in sessions' : (/\ Person(s.user) /\ s.gen <= users[s.user].gen
                              /\ users[s.user].email \notin denied)'
    <2> TAKE s \in sessions'
    <2>1. /\ s.user \in Users /\ s.gen \in Nat /\ users[s.user] # Nil /\ s.gen <= users[s.user].gen
          /\ users[s.user] \in Records /\ users'[s.user] \in Records \cup {Nil}
      BY DEF SignInInv, PeopleTyped, Tokens, Listed, Person
    <2>2. users'[s.user] # Nil /\ users'[s.user].gen >= users[s.user].gen
          /\ users'[s.user].email = users[s.user].email
      BY <2>1 DEF SamePeople
    <2>3. users'[s.user].gen \in Nat /\ users[s.user].gen \in Nat
      BY <2>1, <2>2 DEF Records
    <2> QED BY <2>1, <2>2, <2>3 DEF Person
  <1>4. \A u \in removed' : (Person(u) /\ users[u].email \in denied)'
    BY DEF SamePeople, Person
  <1> QED BY <1>2, <1>3, <1>4 DEF Listed

LEMMA EntitledAfter ==
    ASSUME SignInInv, SamePeople, UNCHANGED audience, members' \subseteq Users \X Channels,
           \A m \in members' : m \in members \/ m[2] \notin PackageChannels
    PROVE  MembersAreEntitled'
  <1>1. \A m \in members' : m[2] \in PackageChannels => (Person(m[1]) /\ Entitled(users[m[1]].groups, m[2]))'
    <2> SUFFICES ASSUME NEW m \in members', m[2] \in PackageChannels
                 PROVE  (Person(m[1]) /\ Entitled(users[m[1]].groups, m[2]))'
      OBVIOUS
    <2>1. m[1] \in Users /\ users[m[1]] # Nil /\ Entitled(users[m[1]].groups, m[2])
      BY DEF SignInInv, MembersAreEntitled, Person
    <2>2. users'[m[1]] # Nil /\ users'[m[1]].groups = users[m[1]].groups
      BY <2>1 DEF SamePeople
    <2> QED BY <2>1, <2>2 DEF Person, Entitled
  <1> QED BY <1>1 DEF MembersAreEntitled

\* The generation of some people advances.
LEMMA GenerationsAdvance ==
    ASSUME SignInAssumption, SignInInv, NEW S,
           \A u \in S : u \in Users /\ Person(u) /\ users[u].gen < MaxAuthGen,
           users' = [u \in Users |-> IF u \in S THEN [users[u] EXCEPT !.gen = @ + 1] ELSE users[u]]
    PROVE  /\ users' \in [Users -> Records \cup {Nil}] /\ SamePeople
           /\ \A v \in Users : Person(v) => users'[v].role = users[v].role
           /\ \A v \in Users : users'[v].gen = users[v].gen => v \notin S \/ ~Person(v)
  <1>1. users \in [Users -> Records \cup {Nil}]
    BY DEF SignInInv, PeopleTyped
  <1>2. ASSUME NEW v \in Users
        PROVE  /\ users'[v] \in Records \cup {Nil}
               /\ users'[v] = Nil <=> users[v] = Nil
               /\ users[v] # Nil => /\ users'[v].email = users[v].email
                                    /\ users'[v].groups = users[v].groups
                                    /\ users'[v].gen >= users[v].gen
                                    /\ users'[v].role = users[v].role
                                    /\ users'[v].gen = users[v].gen => v \notin S
    <2>1. CASE v \in S
      <3>1. PICK x : x = [users[v] EXCEPT !.gen = @ + 1]
        OBVIOUS
      <3>2. users[v] \in Records /\ users[v].gen \in Nat /\ users[v].gen + 1 \in 0..MaxAuthGen
        BY <1>1, <2>1 DEF Person, Records, SignInAssumption
      <3>3. /\ x \in Records /\ x.email = users[v].email /\ x.groups = users[v].groups
            /\ x.gen = users[v].gen + 1 /\ x.role = users[v].role
        BY <3>1, <3>2 DEF Records
      <3>4. users'[v] = x /\ x # Nil /\ users[v] # Nil
        BY <2>1, <3>1, <3>2, <3>3 DEF SignInAssumption
      <3> QED BY <3>2, <3>3, <3>4
    <2>2. CASE v \notin S
      <3>1. users'[v] = users[v]
        BY <2>2
      <3>2. users[v] # Nil => users[v].gen \in Nat
        BY <1>1 DEF Records
      <3> QED BY <1>1, <2>2, <3>1, <3>2
    <2> QED BY <2>1, <2>2
  <1> QED BY <1>2 DEF SamePeople, Person

\* The request of one person moves on, and no debt is forgotten.
LEMMA OwedAfter ==
    ASSUME SignInInv, NEW r \in WebRequests, NEW x \in RequestRows, req' = [req EXCEPT ![r] = x],
           \A u \in Users : Person(u) => Person(u)',
           x.pc = "resolved" => x.actor \in Users /\ Person(x.actor),
           x.pc = "retire" => x.actor \in Users,
           \A u \in removed' \cap creds' :
               \/ x.pc \in {"retire", "died"} /\ x.actor = u
               \/ /\ u \in removed \cap creds
                  /\ ~(req[r].pc \in {"retire", "died"} /\ req[r].actor = u)
    PROVE  Owed' /\ req' \in [WebRequests -> RequestRows]
  <1>1. /\ req' \in [WebRequests -> RequestRows] /\ req'[r] = x
        /\ \A q \in WebRequests : q # r => req'[q] = req[q]
    BY DEF SignInInv, PeopleTyped
  <1>2. RetirementIsOwed'
    <2>1. ASSUME NEW u \in removed' \cap creds'
          PROVE  \E q \in WebRequests : req'[q].pc \in {"retire", "died"} /\ req'[q].actor = u
      <3>1. CASE x.pc \in {"retire", "died"} /\ x.actor = u
        BY <1>1, <3>1
      <3>2. CASE /\ u \in removed \cap creds
                 /\ ~(req[r].pc \in {"retire", "died"} /\ req[r].actor = u)
        <4>1. PICK q \in WebRequests : req[q].pc \in {"retire", "died"} /\ req[q].actor = u
          BY <3>2 DEF SignInInv, Owed, RetirementIsOwed
        <4>2. q # r
          BY <3>2, <4>1
        <4> QED BY <1>1, <4>1, <4>2
      <3> QED BY <3>1, <3>2
    <2> QED BY <2>1 DEF RetirementIsOwed
  <1>3. \A q \in WebRequests : req'[q].pc = "resolved" => req'[q].actor \in Users /\ Person(req'[q].actor)
    BY <1>1 DEF SignInInv, Owed
  <1>4. \A q \in WebRequests : req'[q].pc = "resolved" => (req[q].actor \in Users /\ Person(req[q].actor))'
    <2> TAKE q \in WebRequests
    <2>1. PICK y : y = req'[q].actor
      OBVIOUS
    <2>2. req'[q].pc = "resolved" => y \in Users /\ Person(y)'
      BY <1>3, <2>1
    <2> QED BY <2>1, <2>2 DEF Person
  <1>5. \A q \in WebRequests : req'[q].pc = "retire" => req'[q].actor \in Users
    BY <1>1 DEF SignInInv, Owed
  <1> QED BY <1>1, <1>2, <1>4, <1>5 DEF Owed

LEMMA BlankRequest ==
    ASSUME SignInAssumption
    PROVE  /\ NoRequest \in RequestRows
           /\ NoRequest = [pc |-> "idle", actor |-> Nil, gen |-> 0, admin |-> FALSE, session |-> Nil]
  <1>1. 0 \in 0..MaxAuthGen
    BY DEF SignInAssumption
  <1> QED BY <1>1 DEF NoRequest, RequestRows

LEMMA ReplyRow ==
    ASSUME SignInAssumption
    PROVE  /\ [NoRequest EXCEPT !.pc = "done"] \in RequestRows
           /\ [NoRequest EXCEPT !.pc = "done"].pc = "done"
  <1>1. PICK n : n = NoRequest
    OBVIOUS
  <1>2. n \in RequestRows
    BY <1>1, BlankRequest
  <1>3. [n EXCEPT !.pc = "done"] \in RequestRows /\ [n EXCEPT !.pc = "done"].pc = "done"
    BY <1>2 DEF RequestRows
  <1> QED BY <1>1, <1>3

\* A request that was resolved is answered.
LEMMA RepliedAfter ==
    ASSUME SignInAssumption, SignInInv, NEW r \in WebRequests, req[r].pc = "resolved", Reply(r),
           \A u \in Users : Person(u) => Person(u)',
           \A u \in removed' \cap creds' : u \in removed \cap creds
    PROVE  Owed' /\ req' \in [WebRequests -> RequestRows]
  <1>1. PICK x : x = [NoRequest EXCEPT !.pc = "done"]
    OBVIOUS
  <1>2. x \in RequestRows /\ x.pc = "done" /\ req' = [req EXCEPT ![r] = x]
    BY <1>1, ReplyRow DEF Reply
  <1> QED BY <1>2, OwedAfter

LEMMA SamePeopleExist ==
    ASSUME SamePeople
    PROVE  \A u \in Users : Person(u) => Person(u)'
  BY DEF SamePeople, Person

LEMMA NobodyChanges ==
    ASSUME UNCHANGED users, PeopleTyped
    PROVE  SamePeople /\ users' \in [Users -> Records \cup {Nil}]
  BY DEF SamePeople, PeopleTyped, Records

\* The callbacks and their store are not touched by requests, nor are sessions made.
LEMMA StoreStays ==
    ASSUME SignInInv, UNCHANGED <<attempts, cb>>, sessions' \subseteq sessions
    PROVE  Burnt' /\ Roomy'
  BY BurntStays, RoomyStays DEF SignInInv

-----------------------------------------------------------------------------
(* Requests. *)

LEMMA ResolveKeeps ==
    ASSUME SignInAssumption, SignInInv, NEW r \in WebRequests, NEW s \in sessions, resolve(r, s)
    PROVE  SignInInv'
  <1>1. PICK x : x = [pc |-> "resolved", actor |-> s.user, gen |-> s.gen,
                      admin |-> users[s.user].role = "admin", session |-> s.via]
    OBVIOUS
  <1>2. /\ req[r].pc = "idle" /\ req' = [req EXCEPT ![r] = x]
        /\ UNCHANGED <<people, accounts, sessions, registry, audience, private, members, creds, attempts, cb>>
    BY <1>1 DEF resolve
  <1>3. s \in Tokens /\ Person(s.user)
    BY DEF SignInInv, PeopleTyped, Listed
  <1>4. x \in RequestRows /\ x.pc = "resolved" /\ x.actor \in Users /\ Person(x.actor)
    BY <1>1, <1>3 DEF Tokens, RequestRows
  <1>5. Owed' /\ req' \in [WebRequests -> RequestRows]
    <2>1. \A u \in Users : Person(u) => Person(u)'
      BY <1>2 DEF people, Person
    <2>2. removed' = removed /\ creds' = creds
      BY <1>2 DEF people
    <2> QED BY <1>2, <1>4, <2>1, <2>2, OwedAfter
  <1>6. Listed' /\ Burnt' /\ Roomy'
    BY <1>2, ListedStays, StoreStays DEF people, SignInInv
  <1>7. MembersAreEntitled'
    BY <1>2 DEF people, SignInInv, MembersAreEntitled, Entitled, Person
  <1>8. PeopleTyped'
    BY <1>2, <1>5 DEF people, SignInInv, PeopleTyped
  <1> QED BY <1>5, <1>6, <1>7, <1>8 DEF SignInInv

LEMMA DieKeeps ==
    ASSUME SignInAssumption, SignInInv, NEW r \in WebRequests, die(r)
    PROVE  SignInInv'
  <1>1. PICK x : x = [NoRequest EXCEPT !.pc = "died",
                                       !.actor = IF req[r].pc = "retire" THEN req[r].actor ELSE Nil]
    OBVIOUS
  <1>2. /\ req[r].pc \in {"resolved", "retire"} /\ req' = [req EXCEPT ![r] = x]
        /\ UNCHANGED <<people, accounts, sessions, registry, audience, private, members, creds, attempts, cb>>
    BY <1>1 DEF die
  <1>3. req[r] \in RequestRows
    BY DEF SignInInv, PeopleTyped
  <1>4. x \in RequestRows /\ x.pc = "died" /\ (req[r].pc = "retire" => x.actor = req[r].actor)
    <2>1. PICK n, w : n = NoRequest /\ w = IF req[r].pc = "retire" THEN req[r].actor ELSE Nil
      OBVIOUS
    <2>2. n \in RequestRows /\ w \in Users \cup {Nil} /\ x = [n EXCEPT !.pc = "died", !.actor = w]
      BY <1>1, <1>3, <2>1, BlankRequest DEF RequestRows
    <2>3. x \in RequestRows /\ x.pc = "died" /\ x.actor = w
      BY <2>2 DEF RequestRows
    <2> QED BY <2>1, <2>3
  <1>5. Owed' /\ req' \in [WebRequests -> RequestRows]
    <2>1. \A u \in Users : Person(u) => Person(u)'
      BY <1>2 DEF people, Person
    <2>2. removed' = removed /\ creds' = creds
      BY <1>2 DEF people
    <2> QED BY <1>2, <1>4, <2>1, <2>2, OwedAfter
  <1>6. Listed' /\ Burnt' /\ Roomy'
    BY <1>2, ListedStays, StoreStays DEF people, SignInInv
  <1>7. MembersAreEntitled'
    BY <1>2 DEF people, SignInInv, MembersAreEntitled, Entitled, Person
  <1>8. PeopleTyped'
    BY <1>2, <1>5 DEF people, SignInInv, PeopleTyped
  <1> QED BY <1>5, <1>6, <1>7, <1>8 DEF SignInInv

\* One person's record is rewritten under the same name.
LEMMA Rewritten ==
    ASSUME SignInAssumption, SignInInv, NEW v \in Users, Person(v), NEW x \in Records,
           x.email = users[v].email, x.groups = users[v].groups, x.gen >= users[v].gen,
           users' = [users EXCEPT ![v] = x]
    PROVE  /\ users' \in [Users -> Records \cup {Nil}] /\ SamePeople
           /\ users'[v] = x /\ \A u \in Users : u # v => users'[u] = users[u]
  <1>1. users \in [Users -> Records \cup {Nil}]
    BY DEF SignInInv, PeopleTyped
  <1>2. /\ users' \in [Users -> Records \cup {Nil}] /\ users'[v] = x
        /\ \A u \in Users : u # v => users'[u] = users[u]
    BY <1>1
  <1>3. x # Nil /\ users[v] # Nil
    BY DEF SignInAssumption, Person
  <1>4. ASSUME NEW u \in Users
        PROVE  /\ users'[u] = Nil <=> users[u] = Nil
               /\ users[u] # Nil => /\ users'[u].email = users[u].email
                                    /\ users'[u].groups = users[u].groups
                                    /\ users'[u].gen >= users[u].gen
    <2>1. CASE u = v
      BY <1>2, <1>3, <2>1
    <2>2. CASE u # v
      <3>1. users'[u] = users[u]
        BY <1>2, <2>2
      <3>2. users[u] # Nil => users[u].gen \in Nat
        BY <1>1 DEF Records
      <3> QED BY <3>1, <3>2
    <2> QED BY <2>1, <2>2
  <1> QED BY <1>2, <1>4 DEF SamePeople

\* What change_role leaves of the person.
LEMMA RoleWritten ==
    ASSUME SignInAssumption, SignInInv, NEW v \in Users, Person(v), NEW desired \in {"admin", "user"},
           users[v].gen < MaxAuthGen,
           users' = [users EXCEPT ![v].role = desired, ![v].gen = @ + 1]
    PROVE  /\ users' \in [Users -> Records \cup {Nil}] /\ SamePeople
           /\ users'[v].role = desired /\ users'[v].gen = users[v].gen + 1
           /\ \A u \in Users : u # v => users'[u] = users[u]
  <1>1. users \in [Users -> Records \cup {Nil}] /\ users[v] \in Records
    BY DEF SignInInv, PeopleTyped, Person
  <1>2. PICK x : x = [users[v] EXCEPT !.role = desired, !.gen = @ + 1]
    OBVIOUS
  <1>3. users[v].gen \in Nat /\ users[v].gen + 1 \in 0..MaxAuthGen
    BY <1>1 DEF Records, SignInAssumption
  <1>4. /\ x \in Records /\ x.email = users[v].email /\ x.groups = users[v].groups
        /\ x.gen = users[v].gen + 1 /\ x.role = desired
    BY <1>1, <1>2, <1>3 DEF Records
  <1>5. users' = [users EXCEPT ![v] = x]
    BY <1>1, <1>2
  <1>6. x.gen >= users[v].gen
    BY <1>3, <1>4
  <1> QED BY <1>4, <1>5, <1>6, Rewritten

LEMMA ChangeRoleKeeps ==
    ASSUME SignInAssumption, SignInInv, NEW r \in WebRequests, NEW v \in Users,
           NEW desired \in {"admin", "user"}, change_role(r, v, desired)
    PROVE  SignInInv'
  <1>1. /\ req[r].pc = "resolved" /\ Person(v) /\ Reply(r)
        /\ UNCHANGED <<denied, removed, accounts, sessions, registry, audience, private, members, creds, attempts, cb>>
    BY DEF change_role
  <1>2. SamePeople /\ users' \in [Users -> Records \cup {Nil}]
    <2>1. CASE UNCHANGED users
      BY <2>1, NobodyChanges DEF SignInInv
    <2>2. CASE /\ users[v].gen < MaxAuthGen
               /\ users' = [users EXCEPT ![v].role = desired, ![v].gen = @ + 1]
      BY <1>1, <2>2, RoleWritten
    <2> QED BY <2>1, <2>2 DEF change_role
  <1>3. Owed' /\ req' \in [WebRequests -> RequestRows]
    BY <1>1, <1>2, SamePeopleExist, RepliedAfter
  <1>4. Listed'
    BY <1>1, <1>2, ListedAfter DEF SignInInv, PeopleTyped, Listed
  <1>5. Burnt' /\ Roomy'
    BY <1>1, StoreStays
  <1>6. PeopleTyped'
    BY <1>1, <1>2, <1>3 DEF SignInInv, PeopleTyped
  <1>7. MembersAreEntitled'
    BY <1>1, <1>2, EntitledAfter DEF SignInInv, PeopleTyped
  <1> QED BY <1>3, <1>4, <1>5, <1>6, <1>7 DEF SignInInv

\* The record of somebody whose access goes.
LEMMA RevokedOne ==
    ASSUME SignInAssumption, SignInInv, NEW v \in Users, Person(v), Revoked(v)
    PROVE  /\ users' \in [Users -> Records \cup {Nil}] /\ SamePeople
           /\ \A u \in Users : Person(u) => users'[u].role = users[u].role
           /\ users'[v].gen # users[v].gen
           /\ \A u \in Users : u # v => users'[u] = users[u]
           /\ sessions' = {s \in sessions : s.user # v}
  <1>1. users \in [Users -> Records \cup {Nil}]
    BY DEF SignInInv, PeopleTyped
  <1>2. /\ users[v].gen < MaxAuthGen /\ users' = [users EXCEPT ![v].gen = @ + 1]
        /\ sessions' = {s \in sessions : s.user # v}
    BY DEF Revoked
  <1>3. users' = [u \in Users |-> IF u \in {v} THEN [users[u] EXCEPT !.gen = @ + 1] ELSE users[u]]
    BY <1>1, <1>2
  <1>4. PICK S : S = {v}
    OBVIOUS
  <1>5. users' = [u \in Users |-> IF u \in S THEN [users[u] EXCEPT !.gen = @ + 1] ELSE users[u]]
    BY <1>3, <1>4
  <1>6. \A u \in S : u \in Users /\ Person(u) /\ users[u].gen < MaxAuthGen
    BY <1>2, <1>4
  <1>7. /\ users' \in [Users -> Records \cup {Nil}] /\ SamePeople
        /\ \A u \in Users : Person(u) => users'[u].role = users[u].role
        /\ \A u \in Users : users'[u].gen = users[u].gen => u \notin S \/ ~Person(u)
    BY <1>5, <1>6, GenerationsAdvance
  <1>8. \A u \in Users : u # v => users'[u] = users[u]
    BY <1>4, <1>5
  <1> QED BY <1>2, <1>4, <1>7, <1>8

LEMMA RemovalKeeps ==
    ASSUME SignInAssumption, SignInInv, NEW r \in WebRequests, NEW v \in Users, revoke_access(r, v)
    PROVE  SignInInv'
  <1>1. /\ req[r].pc = "resolved" /\ Person(v)
        /\ UNCHANGED <<accounts, registry, audience, private, members, creds, attempts, cb>>
    BY DEF revoke_access
  <1>2. CASE Reply(r) /\ UNCHANGED <<people, sessions>>
    <2>1. SamePeople
      BY <1>2, NobodyChanges DEF people, SignInInv
    <2>2. Owed' /\ req' \in [WebRequests -> RequestRows]
      BY <1>1, <1>2, <2>1, SamePeopleExist, RepliedAfter DEF people
    <2>3. Listed' /\ Burnt' /\ Roomy'
      BY <1>1, <1>2, ListedStays, StoreStays DEF people, SignInInv
    <2>4. PeopleTyped'
      BY <1>1, <1>2, <2>2 DEF people, SignInInv, PeopleTyped
    <2>5. MembersAreEntitled'
      BY <1>1, <2>1, EntitledAfter DEF SignInInv, PeopleTyped
    <2> QED BY <2>2, <2>3, <2>4, <2>5 DEF SignInInv
  <1>3. CASE /\ RetireNext(r, v)
             /\ \/ UNCHANGED <<people, sessions>>
                \/ /\ denied' = denied \cup {users[v].email} /\ removed' = removed \cup {v}
                   /\ Revoked(v)
    <2>1. PICK x : x = [NoRequest EXCEPT !.pc = "retire", !.actor = v]
      OBVIOUS
    <2>2. x \in RequestRows /\ x.pc = "retire" /\ x.actor = v /\ req' = [req EXCEPT ![r] = x]
      <3>1. PICK n : n = NoRequest
        OBVIOUS
      <3>2. n \in RequestRows /\ x = [n EXCEPT !.pc = "retire", !.actor = v]
        BY <2>1, <3>1, BlankRequest
      <3>3. x \in RequestRows /\ x.pc = "retire" /\ x.actor = v
        BY <3>2 DEF RequestRows
      <3> QED BY <1>3, <2>1, <3>3 DEF RetireNext
    <2>3. /\ SamePeople /\ users' \in [Users -> Records \cup {Nil}] /\ sessions' \subseteq sessions
          /\ denied' \subseteq Emails /\ removed' \subseteq Users /\ removed' \subseteq removed \cup {v}
          /\ \A s \in sessions' : users[s.user].email \notin denied'
          /\ \A u \in removed' : u \in Users /\ Person(u) /\ users[u].email \in denied'
      <3>1. users[v].email \in Emails
        BY <1>1 DEF Person, SignInInv, PeopleTyped, Records
      <3>2. CASE UNCHANGED <<people, sessions>>
        BY <3>2, NobodyChanges DEF people, SignInInv, PeopleTyped, Listed
      <3>3. CASE /\ denied' = denied \cup {users[v].email} /\ removed' = removed \cup {v}
                 /\ Revoked(v)
        <4>1. /\ users' \in [Users -> Records \cup {Nil}] /\ SamePeople
              /\ sessions' = {s \in sessions : s.user # v}
          BY <1>1, <3>3, RevokedOne
        <4>2. \A s \in sessions' : users[s.user].email \notin denied'
          <5> TAKE s \in sessions'
          <5>1. s \in sessions /\ s.user # v /\ s.user \in Users /\ Person(s.user)
                /\ users[s.user].email \notin denied
            BY <4>1 DEF SignInInv, PeopleTyped, Tokens, Listed
          <5>2. users[s.user].email # users[v].email
            BY <1>1, <5>1 DEF SignInInv, Listed, Unique, Person
          <5> QED BY <3>3, <5>1, <5>2
        <4>3. \A u \in removed' : u \in Users /\ Person(u) /\ users[u].email \in denied'
          BY <1>1, <3>3 DEF SignInInv, PeopleTyped, Listed
        <4> QED BY <3>1, <3>3, <4>1, <4>2, <4>3 DEF SignInInv, PeopleTyped
      <3> QED BY <1>3, <3>2, <3>3
    <2>4. Owed' /\ req' \in [WebRequests -> RequestRows]
      <3>1. \A u \in removed' \cap creds' :
               \/ x.pc \in {"retire", "died"} /\ x.actor = u
               \/ /\ u \in removed \cap creds
                  /\ ~(req[r].pc \in {"retire", "died"} /\ req[r].actor = u)
        BY <1>1, <2>2, <2>3
      <3>2. \A u \in Users : Person(u) => Person(u)'
        BY <2>3, SamePeopleExist
      <3> QED BY <2>2, <3>1, <3>2, OwedAfter
    <2>5. Listed'
      BY <1>1, <2>3, ListedAfter
    <2>6. Burnt' /\ Roomy'
      BY <1>1, <2>3, StoreStays
    <2>7. PeopleTyped'
      BY <1>1, <2>3, <2>4 DEF SignInInv, PeopleTyped
    <2>8. MembersAreEntitled'
      BY <1>1, <2>3, EntitledAfter DEF SignInInv, PeopleTyped
    <2> QED BY <2>4, <2>5, <2>6, <2>7, <2>8 DEF SignInInv
  <1> QED BY <1>2, <1>3 DEF revoke_access

LEMMA RestoreKeeps ==
    ASSUME SignInAssumption, SignInInv, NEW r \in WebRequests, NEW v \in Users, restore_access(r, v)
    PROVE  SignInInv'
  <1>1. /\ req[r].pc = "resolved" /\ Person(v) /\ Reply(r)
        /\ denied' = denied \ {users[v].email} /\ removed' = removed \ {v}
        /\ UNCHANGED <<users, accounts, sessions, registry, audience, private, members, creds, attempts, cb>>
    BY DEF restore_access
  <1>2. SamePeople
    BY <1>1, NobodyChanges DEF SignInInv
  <1>3. Owed' /\ req' \in [WebRequests -> RequestRows]
    BY <1>1, <1>2, SamePeopleExist, RepliedAfter
  <1>4. Listed'
    <2>1. \A u \in removed' : u \in Users /\ Person(u) /\ users[u].email \in denied'
      BY <1>1 DEF SignInInv, PeopleTyped, Listed, Unique, Person
    <2>2. \A s \in sessions' : users[s.user].email \notin denied'
      BY <1>1 DEF SignInInv, Listed
    <2>3. users' \in [Users -> Records \cup {Nil}]
      BY <1>1 DEF SignInInv, PeopleTyped
    <2> QED BY <1>1, <1>2, <2>1, <2>2, <2>3, ListedAfter
  <1>5. Burnt' /\ Roomy'
    BY <1>1, StoreStays
  <1>6. PeopleTyped'
    BY <1>1, <1>3 DEF SignInInv, PeopleTyped
  <1>7. MembersAreEntitled'
    BY <1>1, <1>2, EntitledAfter DEF SignInInv, PeopleTyped
  <1> QED BY <1>3, <1>4, <1>5, <1>6, <1>7 DEF SignInInv

\* The second transaction of a revocation pays the debt.
LEMMA RetireKeeps ==
    ASSUME SignInAssumption, SignInInv, NEW r \in WebRequests, retire_owned_credentials(r)
    PROVE  SignInInv'
  <1>1. /\ req[r].pc = "retire" /\ Reply(r) /\ creds' = creds \ {req[r].actor}
        /\ UNCHANGED <<users, denied, removed, accounts, sessions, registry, audience, private, members, attempts, cb>>
    BY DEF retire_owned_credentials, people
  <1>2. SamePeople
    BY <1>1, NobodyChanges DEF SignInInv
  <1>3. Owed' /\ req' \in [WebRequests -> RequestRows]
    <2>1. PICK x : x = [NoRequest EXCEPT !.pc = "done"]
      OBVIOUS
    <2>2. x \in RequestRows /\ x.pc = "done" /\ req' = [req EXCEPT ![r] = x]
      BY <1>1, <2>1, ReplyRow DEF Reply
    <2>3. \A u \in removed' \cap creds' :
             /\ u \in removed \cap creds
             /\ ~(req[r].pc \in {"retire", "died"} /\ req[r].actor = u)
      BY <1>1
    <2>4. \A u \in Users : Person(u) => Person(u)'
      BY <1>2, SamePeopleExist
    <2> QED BY <2>2, <2>3, <2>4, OwedAfter
  <1>4. Listed'
    BY <1>1, ListedStays DEF SignInInv
  <1>5. Burnt' /\ Roomy'
    BY <1>1, StoreStays
  <1>6. PeopleTyped'
    BY <1>1, <1>3 DEF SignInInv, PeopleTyped
  <1>7. MembersAreEntitled'
    BY <1>1, <1>2, EntitledAfter DEF SignInInv, PeopleTyped
  <1> QED BY <1>3, <1>4, <1>5, <1>6, <1>7 DEF SignInInv

\* Nobody who was removed connects an account.
LEMMA ConnectKeeps ==
    ASSUME SignInAssumption, SignInInv, NEW r \in WebRequests, connect(r)
    PROVE  SignInInv'
  <1>1. /\ req[r].pc = "resolved" /\ Reply(r) /\ creds' = creds \cup {req[r].actor}
        /\ users[req[r].actor].email \notin denied
        /\ UNCHANGED <<users, denied, removed, accounts, sessions, registry, audience, private, members, attempts, cb>>
    BY DEF connect, people
  <1>2. SamePeople
    BY <1>1, NobodyChanges DEF SignInInv
  <1>3. req[r].actor \in Users /\ req[r].actor \notin removed
    BY <1>1 DEF SignInInv, Owed, Listed
  <1>4. Owed' /\ req' \in [WebRequests -> RequestRows]
    BY <1>1, <1>2, <1>3, SamePeopleExist, RepliedAfter
  <1>5. Listed'
    BY <1>1, ListedStays DEF SignInInv
  <1>6. Burnt' /\ Roomy'
    BY <1>1, StoreStays
  <1>7. PeopleTyped'
    BY <1>1, <1>3, <1>4 DEF SignInInv, PeopleTyped
  <1>8. MembersAreEntitled'
    BY <1>1, <1>2, EntitledAfter DEF SignInInv, PeopleTyped
  <1> QED BY <1>4, <1>5, <1>6, <1>7, <1>8 DEF SignInInv

LEMMA SignOutKeeps ==
    ASSUME SignInAssumption, SignInInv, NEW r \in WebRequests, revoke_session(r)
    PROVE  SignInInv'
  <1>1. /\ req[r].pc = "resolved" /\ Reply(r) /\ sessions' \subseteq sessions
        /\ UNCHANGED <<users, denied, removed, accounts, registry, audience, private, members, creds, attempts, cb>>
    BY DEF revoke_session, people
  <1>2. SamePeople /\ users' \in [Users -> Records \cup {Nil}]
    BY <1>1, NobodyChanges DEF SignInInv
  <1>3. Owed' /\ req' \in [WebRequests -> RequestRows]
    BY <1>1, <1>2, SamePeopleExist, RepliedAfter
  <1>4. Listed'
    BY <1>1, <1>2, ListedAfter DEF SignInInv, PeopleTyped, Listed
  <1>5. Burnt' /\ Roomy'
    BY <1>1, StoreStays
  <1>6. PeopleTyped'
    BY <1>1, <1>3 DEF SignInInv, PeopleTyped
  <1>7. MembersAreEntitled'
    BY <1>1, <1>2, EntitledAfter DEF SignInInv, PeopleTyped
  <1> QED BY <1>3, <1>4, <1>5, <1>6, <1>7 DEF SignInInv

LEMMA CreateKeeps ==
    ASSUME SignInAssumption, SignInInv, NEW r \in WebRequests, NEW ch \in PrivateChannels,
           create_channel(r, ch)
    PROVE  SignInInv'
  <1>1. /\ req[r].pc = "resolved" /\ Reply(r)
        /\ private' = private \/ private' = private \cup {ch}
        /\ members' = members \/ members' = members \cup {<<req[r].actor, ch>>}
        /\ UNCHANGED <<users, denied, removed, accounts, sessions, registry, audience, creds, attempts, cb>>
    BY DEF create_channel, people
  <1>2. SamePeople
    BY <1>1, NobodyChanges DEF SignInInv
  <1>3. Owed' /\ req' \in [WebRequests -> RequestRows]
    BY <1>1, <1>2, SamePeopleExist, RepliedAfter
  <1>4. Listed'
    BY <1>1, ListedStays DEF SignInInv
  <1>5. Burnt' /\ Roomy'
    BY <1>1, StoreStays
  <1>6. req[r].actor \in Users /\ ch \in Channels /\ ch \notin PackageChannels
    BY <1>1 DEF SignInInv, Owed, Channels, SignInAssumption
  <1>7. /\ members' \subseteq Users \X Channels /\ private' \subseteq PrivateChannels
        /\ \A m \in members' : m \in members \/ m[2] \notin PackageChannels
    BY <1>1, <1>6 DEF SignInInv, PeopleTyped
  <1>8. PeopleTyped'
    BY <1>1, <1>3, <1>7 DEF SignInInv, PeopleTyped
  <1>9. MembersAreEntitled'
    BY <1>1, <1>2, <1>7, EntitledAfter
  <1> QED BY <1>3, <1>4, <1>5, <1>8, <1>9 DEF SignInInv

-----------------------------------------------------------------------------
(* Providers and the package. *)

\* Whom a provider vouched for loses anchor and sessions.
LEMMA LinksGo ==
    ASSUME SignInAssumption, SignInInv, NEW p, LinksRevoked(p)
    PROVE  /\ users' \in [Users -> Records \cup {Nil}] /\ SamePeople
           /\ \A u \in Users : Person(u) => users'[u].role = users[u].role
           /\ accounts' \subseteq accounts /\ sessions' \subseteq sessions
  <1>1. PICK S : S = LinkedTo(p)
    OBVIOUS
  <1>2. \A u \in S : u \in Users /\ Person(u) /\ users[u].gen < MaxAuthGen
    BY <1>1 DEF LinkedTo, LinksRevoked, SignInInv, PeopleTyped, Links, Listed, Unique, Person
  <1>3. users' = [u \in Users |-> IF u \in S THEN [users[u] EXCEPT !.gen = @ + 1] ELSE users[u]]
    BY <1>1 DEF LinksRevoked
  <1>4. accounts' \subseteq accounts /\ sessions' \subseteq sessions
    BY DEF LinksRevoked
  <1> QED BY <1>2, <1>3, <1>4, GenerationsAdvance

\* A provider is written or removed.
LEMMA ProviderKeeps ==
    ASSUME SignInAssumption, SignInInv, NEW r \in WebRequests, NEW p \in DynamicProviders,
           NEW to \in Configs \cup {Nil}, req[r].pc = "resolved", Reply(r),
           UNCHANGED <<users, sessions, accounts>> \/ LinksRevoked(p),
           registry' = [registry EXCEPT ![p] = to],
           UNCHANGED <<denied, removed, audience, private, members, creds, attempts, cb>>
    PROVE  SignInInv'
  <1>1. /\ users' \in [Users -> Records \cup {Nil}] /\ SamePeople
        /\ accounts' \subseteq accounts /\ sessions' \subseteq sessions
    BY LinksGo, NobodyChanges DEF SignInInv
  <1>2. Owed' /\ req' \in [WebRequests -> RequestRows]
    BY <1>1, SamePeopleExist, RepliedAfter
  <1>3. Listed'
    BY <1>1, ListedAfter DEF SignInInv, PeopleTyped, Listed
  <1>4. Burnt' /\ Roomy'
    BY <1>1, StoreStays
  <1>5. PeopleTyped'
    BY <1>1, <1>2 DEF SignInInv, PeopleTyped
  <1>6. MembersAreEntitled'
    BY <1>1, EntitledAfter DEF SignInInv, PeopleTyped
  <1> QED BY <1>2, <1>3, <1>4, <1>5, <1>6 DEF SignInInv

LEMMA WriteProviderKeeps ==
    ASSUME SignInAssumption, SignInInv, NEW r \in WebRequests, NEW p \in DynamicProviders,
           NEW config \in Configs, write_provider(r, p, config)
    PROVE  SignInInv'
  BY ProviderKeeps DEF write_provider

LEMMA RemoveProviderKeeps ==
    ASSUME SignInAssumption, SignInInv, NEW r \in WebRequests, NEW p \in DynamicProviders,
           remove_provider(r, p)
    PROVE  SignInInv'
  <1>1. PICK to : to = Nil
    OBVIOUS
  <1>2. registry' = [registry EXCEPT ![p] = to]
    BY <1>1 DEF remove_provider
  <1> QED BY <1>1, <1>2, ProviderKeeps DEF remove_provider

\* The new audiences reach everybody, and who loses a channel signs in again.
LEMMA Lost ==
    ASSUME SignInAssumption, SignInInv, NEW aud \in [PackageChannels -> Audiences], synchronize(aud)
    PROVE  /\ users' \in [Users -> Records \cup {Nil}] /\ SamePeople
           /\ \A u \in Users : Person(u) => users'[u].role = users[u].role
           /\ sessions' \subseteq sessions
  <1>1. PICK S : S = {m[1] : m \in members \ Reconciled(aud)}
    OBVIOUS
  <1>2. \A u \in S : u \in Users /\ Person(u)
    <2>1. ASSUME NEW m \in members, m \notin Reconciled(aud)
          PROVE  m[1] \in Users /\ Person(m[1])
      <3>1. m[1] \in Users /\ m[2] \in PackageChannels
        BY <2>1 DEF Reconciled, Channels, SignInInv, PeopleTyped
      <3> QED BY <3>1 DEF SignInInv, MembersAreEntitled
    <2> QED BY <1>1, <2>1
  <1>3. \A u \in S : users[u].gen < MaxAuthGen
    BY <1>1 DEF synchronize
  <1>4. users' = [u \in Users |-> IF u \in S THEN [users[u] EXCEPT !.gen = @ + 1] ELSE users[u]]
    BY <1>1 DEF synchronize
  <1>5. sessions' \subseteq sessions
    BY DEF synchronize
  <1> QED BY <1>2, <1>3, <1>4, <1>5, GenerationsAdvance

LEMMA SynchronizeKeeps ==
    ASSUME SignInAssumption, SignInInv, NEW aud \in [PackageChannels -> Audiences], synchronize(aud)
    PROVE  SignInInv'
  <1>1. /\ members' = Reconciled(aud) /\ audience' = aud
        /\ UNCHANGED <<denied, removed, accounts, registry, private, creds, attempts, cb, req>>
    BY DEF synchronize
  <1>2. /\ users' \in [Users -> Records \cup {Nil}] /\ SamePeople /\ sessions' \subseteq sessions
    BY Lost
  <1>3. Owed'
    BY <1>1, <1>2, SamePeopleExist, OwedStays DEF SignInInv
  <1>4. Listed'
    BY <1>1, <1>2, ListedAfter DEF SignInInv, PeopleTyped, Listed
  <1>5. Burnt' /\ Roomy'
    BY <1>1, <1>2, StoreStays
  <1>6. PeopleTyped'
    <2>1. members' \subseteq Users \X Channels
      BY <1>1 DEF Reconciled, Desired, Channels, SignInInv, PeopleTyped
    <2> QED BY <1>1, <1>2, <2>1 DEF SignInInv, PeopleTyped
  <1>7. MembersAreEntitled'
    <2>1. \A m \in members' : m[2] \in PackageChannels => (Person(m[1]) /\ Entitled(users[m[1]].groups, m[2]))'
      <3> SUFFICES ASSUME NEW m \in members', m[2] \in PackageChannels
                   PROVE  (Person(m[1]) /\ Entitled(users[m[1]].groups, m[2]))'
        OBVIOUS
      <3>1. m \in Desired(aud)
        BY <1>1 DEF Reconciled, SignInAssumption
      <3>2. m[1] \in Users /\ users[m[1]] # Nil /\ Literal(m[1], aud, m[2])
        BY <3>1 DEF Desired, Person
      <3>3. users[m[1]].groups \subseteq Groups
        BY <3>2 DEF SignInInv, PeopleTyped, Records
      <3>4. aud[m[2]].everyone \/ \E raw \in aud[m[2]].named : Fold[raw] \in users[m[1]].groups
        BY <3>2, <3>3 DEF Literal, SignInAssumption
      <3>5. users'[m[1]] # Nil /\ users'[m[1]].groups = users[m[1]].groups
        BY <1>2, <3>2 DEF SamePeople
      <3> QED BY <1>1, <3>4, <3>5 DEF Person, Entitled
    <2> QED BY <2>1 DEF MembersAreEntitled
  <1> QED BY <1>3, <1>4, <1>5, <1>6, <1>7 DEF SignInInv

-----------------------------------------------------------------------------
(* The theorems. *)

LEMMA SignInInitHolds == SignInAssumption /\ SignInInit => SignInInv
  <1> SUFFICES ASSUME SignInAssumption, SignInInit
               PROVE  SignInInv
    OBVIOUS
  <1>1. PICK d \in Databases : users = d.users /\ accounts = d.accounts
    BY DEF SignInInit
  <1>2. /\ users \in [Users -> Records \cup {Nil}] /\ accounts \subseteq Links /\ Unique(users, accounts)
    BY <1>1 DEF SignInAssumption
  <1>3. /\ denied = {} /\ removed = {} /\ sessions = {} /\ private = {} /\ members = {} /\ creds = {}
        /\ registry = [p \in DynamicProviders |-> Nil]
        /\ cb = [c \in Callbacks |-> NoCallback] /\ req = [r \in WebRequests |-> NoRequest]
    BY DEF SignInInit
  <1>4. attempts = [a \in Attempts |-> [phase |-> "none", provider |-> Nil]]
    BY DEF SignInInit
  <1>5. NoCallback \in CallbackRows /\ NoCallback.pc = "idle" /\ NoCallback.attempt = Nil
    BY DEF NoCallback, CallbackRows
  <1>6. attempts \in [Attempts -> LoginRows] /\ \A a \in Attempts : attempts[a].phase = "none"
    <2>1. PICK x : x = [phase |-> "none", provider |-> Nil]
      OBVIOUS
    <2>2. x \in LoginRows /\ x.phase = "none"
      BY <2>1 DEF LoginRows
    <2>3. attempts = [a \in Attempts |-> x]
      BY <1>4, <2>1
    <2> QED BY <2>2, <2>3
  <1>7. /\ cb \in [Callbacks -> CallbackRows]
        /\ \A c \in Callbacks : cb[c].pc = "idle" /\ cb[c].attempt = Nil
    BY <1>3, <1>5
  <1>8. req \in [WebRequests -> RequestRows] /\ \A r \in WebRequests : req[r].pc = "idle"
    <2>1. PICK n : n = NoRequest
      OBVIOUS
    <2>2. n \in RequestRows /\ n.pc = "idle"
      BY <2>1, BlankRequest DEF NoRequest
    <2>3. req = [r \in WebRequests |-> n]
      BY <1>3, <2>1
    <2> QED BY <2>2, <2>3
  <1>9. PeopleTyped
    <2>1. registry \in [DynamicProviders -> Configs \cup {Nil}]
      BY <1>3
    <2> QED BY <1>2, <1>3, <1>6, <1>7, <1>8, <2>1 DEF PeopleTyped
  <1>10. Listed
    BY <1>2, <1>3 DEF Listed
  <1>11. Burnt
    BY <1>3, <1>6, <1>7 DEF Burnt, StateIsBurntOnce, Redeeming
  <1>12. Owed
    BY <1>3, <1>8 DEF Owed, RetirementIsOwed
  <1>13. Roomy
    <2>1. OpenOnes = {}
      BY <1>6 DEF OpenOnes
    <2>2. Cardinality(OpenOnes) = 0
      BY <2>1, FS_EmptySet
    <2> QED BY <2>2 DEF Roomy, SignInAssumption
  <1>14. MembersAreEntitled
    BY <1>3 DEF MembersAreEntitled
  <1> QED BY <1>9, <1>10, <1>11, <1>12, <1>13, <1>14 DEF SignInInv

LEMMA SignInStutters ==
    ASSUME SignInInv, UNCHANGED signInVars
    PROVE  SignInInv'
  <1>1. UNCHANGED <<users, denied, removed, accounts, sessions, registry, audience, private,
                    members, creds, attempts, cb, req>>
    BY DEF signInVars
  <1>2. PeopleTyped'
    BY <1>1 DEF SignInInv, PeopleTyped
  <1>3. Listed' /\ Owed' /\ MembersAreEntitled'
    BY <1>1, PeopleStay DEF SignInInv
  <1>4. Burnt' /\ Roomy'
    BY <1>1, StoreStays
  <1> QED BY <1>2, <1>3, <1>4 DEF SignInInv

LEMMA SignInNextKeeps ==
    ASSUME SignInAssumption, SignInInv, SignInNext
    PROVE  SignInInv'
  <1>1. CASE \E a \in Attempts : expire(a) \/ \E p \in Providers : start(a, p)
    BY <1>1, ExpireKeeps, StartKeeps
  <1>2. CASE \E c \in Callbacks :
               \/ \E a \in Attempts : begin_callback(c, a)
               \/ load_runtime(c)
               \/ \E id \in Identities : verify(c, id)
               \/ abandon(c)
               \/ issue_federated(c)
    BY <1>2, BeginKeeps, RuntimeLoadKeeps, VerifyKeeps, AbandonKeeps, FederatedKeeps
  <1>3. CASE \E r \in WebRequests :
               \/ \E s \in sessions : resolve(r, s)
               \/ \E u \in Users, role \in {"admin", "user"} : change_role(r, u, role)
               \/ \E u \in Users : revoke_access(r, u) \/ restore_access(r, u)
               \/ retire_owned_credentials(r) \/ connect(r) \/ revoke_session(r) \/ die(r)
               \/ \E ch \in PrivateChannels : create_channel(r, ch)
               \/ \E p \in DynamicProviders :
                     remove_provider(r, p) \/ \E config \in Configs : write_provider(r, p, config)
    BY <1>3, ResolveKeeps, ChangeRoleKeeps, RemovalKeeps, RestoreKeeps, RetireKeeps, ConnectKeeps,
       SignOutKeeps, DieKeeps, CreateKeeps, WriteProviderKeeps, RemoveProviderKeeps
  <1>4. CASE \E aud \in [PackageChannels -> Audiences] : synchronize(aud)
    BY <1>4, SynchronizeKeeps
  <1> QED BY <1>1, <1>2, <1>3, <1>4 DEF SignInNext

LEMMA SignInInvImplies ==
    ASSUME SignInAssumption, SignInInv
    PROVE  SignInSafety
  <1>1. RemovedStaysOut
    BY DEF SignInInv, Listed, RemovedStaysOut
  <1>2. SignInTypeOK
    <2>1. \A a \in accounts : a.provider \in Providers /\ a.subject \in Subjects /\ Person(a.user)
      BY DEF SignInInv, PeopleTyped, Links, Listed, Unique, Person
    <2>2. \A s \in sessions : Person(s.user) /\ s.gen <= users[s.user].gen /\ s.via \in Attempts
      BY DEF SignInInv, PeopleTyped, Tokens, Listed
    <2>3. \A c \in Callbacks : cb[c].pc \in {"idle", "burnt", "loaded", "verified", "signed_in", "failed", "corrupt"}
      BY DEF SignInInv, PeopleTyped, CallbackRows
    <2>4. \A r \in WebRequests : req[r].pc \in {"idle", "resolved", "retire", "done", "died"}
      BY DEF SignInInv, PeopleTyped, RequestRows
    <2>5. Cardinality({a \in Attempts : attempts[a].phase = "open"}) <= Capacity
      BY DEF SignInInv, Roomy, OpenOnes
    <2> QED BY <2>1, <2>2, <2>3, <2>4, <2>5 DEF SignInInv, PeopleTyped, SignInTypeOK
  <1> QED BY <1>1, <1>2 DEF SignInInv, Burnt, Owed, SignInSafety

LEMMA SignInInvHolds ==
    ASSUME SignInAssumption
    PROVE  SignInSpec => []SignInInv
  <1>1. SignInInit => SignInInv
    BY SignInInitHolds
  <1>2. SignInInv /\ [SignInNext]_signInVars => SignInInv'
    BY SignInNextKeeps, SignInStutters
  <1> QED BY <1>1, <1>2, PTL DEF SignInSpec

\* Who may use the server (consume, issue_federated, change_access,
\* retire_owned_credentials, reconcile_memberships): a login state is redeemed by one
\* callback, a person whose access was removed has no session and nobody forgets to
\* retire the credentials, and members of a channel belong to its audience.
THEOREM RemovedPeopleStayOut ==
    ASSUME SignInAssumption
    PROVE  SignInSpec => []SignInSafety
  <1>1. SignInInv => SignInSafety
    BY SignInInvImplies
  <1> QED BY <1>1, SignInInvHolds, PTL

-----------------------------------------------------------------------------
(* What a step may never do. *)

AdminStays == (\E u \in Users : EffectiveAdmin(u)) => (\E u \in Users : EffectiveAdmin(u))'

\* A step that signs nobody in.
SignsNobodyIn ==
    /\ SamePeople /\ sessions' \subseteq sessions /\ AdminStays
    /\ \A c \in Callbacks : cb[c].pc = "verified" => cb'[c].pc # "signed_in"

LEMMA AdminsKeep ==
    ASSUME SamePeople, \A u \in Users : Person(u) => users'[u].role = users[u].role, denied' \subseteq denied
    PROVE  AdminStays
  <1>1. \A u \in Users : EffectiveAdmin(u) => EffectiveAdmin(u)'
    BY DEF SamePeople, EffectiveAdmin, Person
  <1> QED BY <1>1 DEF AdminStays

\* Nothing happens to people.
LEMMA StandStill ==
    ASSUME SignInInv, UNCHANGED <<people, sessions>>,
           \A c \in Callbacks : cb[c].pc = "verified" => cb'[c].pc # "signed_in"
    PROVE  SignsNobodyIn
  <1>1. SamePeople
    BY NobodyChanges DEF people, SignInInv
  <1>2. AdminStays
    BY <1>1, AdminsKeep DEF people
  <1> QED BY <1>1, <1>2 DEF SignsNobodyIn

LEMMA NobodySignsIn ==
    ASSUME SignInInv, NEW c \in Callbacks, NEW x, cb' = [cb EXCEPT ![c] = x], x.pc # "signed_in"
    PROVE  \A d \in Callbacks : cb[d].pc = "verified" => cb'[d].pc # "signed_in"
  BY DEF SignInInv, PeopleTyped

LEMMA EndsBadly ==
    ASSUME SignInInv, NEW c \in Callbacks, NEW how, how # "signed_in", CallbackEnds(c, how)
    PROVE  \A d \in Callbacks : cb[d].pc = "verified" => cb'[d].pc # "signed_in"
  <1>1. PICK x : x = [NoCallback EXCEPT !.pc = how, !.attempt = cb[c].attempt]
    OBVIOUS
  <1>2. x.pc = how /\ cb' = [cb EXCEPT ![c] = x]
    BY <1>1 DEF NoCallback, CallbackEnds
  <1> QED BY <1>2, NobodySignsIn

LEMMA CallbackStands ==
    ASSUME SignInInv, NEW c \in Callbacks,
           \/ \E a \in Attempts : begin_callback(c, a)
           \/ load_runtime(c)
           \/ \E id \in Identities : verify(c, id)
           \/ abandon(c)
    PROVE  SignsNobodyIn
  <1>1. UNCHANGED <<people, sessions>>
    BY DEF begin_callback, load_runtime, verify, abandon
  <1>2. cb \in [Callbacks -> CallbackRows]
    BY DEF SignInInv, PeopleTyped
  <1>3. \A d \in Callbacks : cb[d].pc = "verified" => cb'[d].pc # "signed_in"
    <2>1. CASE \E a \in Attempts : begin_callback(c, a)
      <3>1. PICK a \in Attempts : begin_callback(c, a)
        BY <2>1
      <3>2. PICK x : x = [cb[c] EXCEPT !.pc = IF attempts[a].phase = "open" THEN "burnt" ELSE "failed",
                                       !.attempt = IF attempts[a].phase = "open" THEN a ELSE Nil]
        OBVIOUS
      <3>3. x.pc # "signed_in" /\ cb' = [cb EXCEPT ![c] = x]
        BY <1>2, <3>1, <3>2 DEF begin_callback, CallbackRows
      <3> QED BY <3>3, NobodySignsIn
    <2>2. CASE load_runtime(c)
      <3>1. cb[c].pc = "burnt" /\ \A d \in Callbacks : d # c => cb'[d] = cb[d]
        BY <1>2, <2>2 DEF load_runtime
      <3> QED BY <3>1
    <2>3. CASE \E id \in Identities : verify(c, id)
      <3>1. cb[c].pc = "loaded" /\ \A d \in Callbacks : d # c => cb'[d] = cb[d]
        BY <1>2, <2>3 DEF verify
      <3> QED BY <3>1
    <2>4. CASE abandon(c)
      BY <2>4, EndsBadly DEF abandon
    <2> QED BY <2>1, <2>2, <2>3, <2>4
  <1> QED BY <1>1, <1>3, StandStill

\* Somebody else is an administrator when one of them goes.
LEMMA AnotherAdmin ==
    ASSUME NEW v \in Users, OtherAdmins(v) # 0
    PROVE  \E u \in Users : u # v /\ EffectiveAdmin(u)
  <1>1. PICK A : A = {u \in Users \ {v} : EffectiveAdmin(u)}
    OBVIOUS
  <1>2. A # {}
    BY <1>1, FS_EmptySet DEF OtherAdmins
  <1> QED BY <1>1, <1>2

LEMMA ChangeRoleStands ==
    ASSUME SignInAssumption, SignInInv, NEW r \in WebRequests, NEW v \in Users,
           NEW desired \in {"admin", "user"}, change_role(r, v, desired)
    PROVE  SignsNobodyIn
  <1>1. Person(v) /\ UNCHANGED <<denied, removed, sessions, cb>>
    BY DEF change_role
  <1>2. CASE UNCHANGED users
    BY <1>1, <1>2, StandStill DEF people
  <1>3. CASE /\ ~RoleChangeRefused(req[r].actor, v, desired) /\ users[v].role # desired
             /\ users[v].gen < MaxAuthGen
             /\ users' = [users EXCEPT ![v].role = desired, ![v].gen = @ + 1]
    <2>1. SamePeople /\ \A u \in Users : u # v => users'[u] = users[u]
      BY <1>1, <1>3, RoleWritten
    <2>2. \A u \in Users : u # v /\ EffectiveAdmin(u) => EffectiveAdmin(u)'
      BY <1>1, <2>1 DEF EffectiveAdmin, Person
    <2>3. users[v].role = "admin" => \E u \in Users : u # v /\ EffectiveAdmin(u)
      BY <1>3, AnotherAdmin DEF RoleChangeRefused
    <2>4. AdminStays
      BY <2>2, <2>3 DEF AdminStays, EffectiveAdmin
    <2> QED BY <1>1, <2>1, <2>4 DEF SignsNobodyIn
  <1> QED BY <1>2, <1>3 DEF change_role

LEMMA RevokeStands ==
    ASSUME SignInAssumption, SignInInv, NEW r \in WebRequests, NEW v \in Users, revoke_access(r, v)
    PROVE  SignsNobodyIn
  <1>1. Person(v) /\ UNCHANGED cb
    BY DEF revoke_access
  <1>2. CASE UNCHANGED <<people, sessions>>
    BY <1>1, <1>2, StandStill
  <1>3. CASE /\ ~AccessChangeRefused(req[r].actor, v)
             /\ denied' = denied \cup {users[v].email} /\ Revoked(v)
    <2>1. /\ SamePeople /\ \A u \in Users : u # v => users'[u] = users[u]
          /\ sessions' \subseteq sessions
      BY <1>1, <1>3, RevokedOne
    <2>2. \A u \in Users : u # v /\ EffectiveAdmin(u) => EffectiveAdmin(u)'
      <3> TAKE u \in Users
      <3>1. u # v /\ Person(u) => users[u].email # users[v].email
        BY <1>1 DEF SignInInv, Listed, Unique, Person
      <3> QED BY <1>3, <2>1, <3>1 DEF EffectiveAdmin, Person
    <2>3. users[v].role = "admin" => \E u \in Users : u # v /\ EffectiveAdmin(u)
      BY <1>3, AnotherAdmin DEF AccessChangeRefused
    <2>4. AdminStays
      BY <2>2, <2>3 DEF AdminStays, EffectiveAdmin
    <2> QED BY <1>1, <2>1, <2>4 DEF SignsNobodyIn
  <1> QED BY <1>2, <1>3 DEF revoke_access

LEMMA RestoreStands ==
    ASSUME SignInInv, NEW r \in WebRequests, NEW v \in Users, restore_access(r, v)
    PROVE  SignsNobodyIn
  <1>1. UNCHANGED <<users, sessions, cb>> /\ denied' \subseteq denied
    BY DEF restore_access
  <1>2. SamePeople
    BY <1>1, NobodyChanges DEF SignInInv
  <1>3. AdminStays
    BY <1>1, <1>2, AdminsKeep
  <1> QED BY <1>1, <1>2, <1>3 DEF SignsNobodyIn

LEMMA ProviderStands ==
    ASSUME SignInAssumption, SignInInv, NEW r \in WebRequests, NEW p \in DynamicProviders,
           remove_provider(r, p) \/ \E config \in Configs : write_provider(r, p, config)
    PROVE  SignsNobodyIn
  <1>1. UNCHANGED <<denied, removed, cb>>
    BY DEF remove_provider, write_provider
  <1>2. CASE UNCHANGED <<users, sessions>>
    BY <1>1, <1>2, StandStill DEF people
  <1>3. CASE LinksRevoked(p)
    <2>1. /\ SamePeople /\ sessions' \subseteq sessions
          /\ \A u \in Users : Person(u) => users'[u].role = users[u].role
      BY <1>3, LinksGo
    <2>2. AdminStays
      BY <1>1, <2>1, AdminsKeep
    <2> QED BY <1>1, <2>1, <2>2 DEF SignsNobodyIn
  <1> QED BY <1>2, <1>3 DEF remove_provider, write_provider

LEMMA SynchronizeStands ==
    ASSUME SignInAssumption, SignInInv, NEW aud \in [PackageChannels -> Audiences], synchronize(aud)
    PROVE  SignsNobodyIn
  <1>1. /\ SamePeople /\ sessions' \subseteq sessions
        /\ \A u \in Users : Person(u) => users'[u].role = users[u].role
    BY Lost
  <1>2. UNCHANGED <<denied, cb>>
    BY DEF synchronize
  <1>3. AdminStays
    BY <1>1, <1>2, AdminsKeep
  <1> QED BY <1>1, <1>2, <1>3 DEF SignsNobodyIn

\* A sign-out, and the requests that leave people and sessions alone.
LEMMA RequestStands ==
    ASSUME SignInAssumption, SignInInv, NEW r \in WebRequests,
           \/ \E s \in sessions : resolve(r, s)
           \/ retire_owned_credentials(r) \/ connect(r) \/ revoke_session(r) \/ die(r)
           \/ \E ch \in PrivateChannels : create_channel(r, ch)
    PROVE  SignsNobodyIn
  <1>1. UNCHANGED <<people, cb>> /\ sessions' \subseteq sessions
    BY DEF resolve, retire_owned_credentials, connect, revoke_session, die, create_channel
  <1>2. SamePeople
    BY <1>1, NobodyChanges DEF people, SignInInv
  <1>3. AdminStays
    BY <1>1, <1>2, AdminsKeep DEF people
  <1> QED BY <1>1, <1>2, <1>3 DEF SignsNobodyIn

\* A step signs one person in, or nobody.
LEMMA StepsSignIn ==
    ASSUME SignInAssumption, SignInInv, [SignInNext]_signInVars
    PROVE  \/ SignsNobodyIn
           \/ \E c \in Callbacks : cb[c].pc = "verified" /\ \E u \in Users : SignedIn(c, u)
  <1>1. CASE UNCHANGED signInVars
    BY <1>1, StandStill DEF signInVars, people
  <1>2. CASE \E a \in Attempts : expire(a) \/ \E p \in Providers : start(a, p)
    <2>1. UNCHANGED <<people, sessions, cb>>
      BY <1>2 DEF expire, start
    <2> QED BY <2>1, StandStill
  <1>3. CASE \E c \in Callbacks : issue_federated(c)
    <2>1. PICK c \in Callbacks : issue_federated(c)
      BY <1>3
    <2>2. PICK u \in Candidates(attempts[cb[c].attempt].provider, cb[c].identity) :
            IF \/ Conflict(attempts[cb[c].attempt].provider, cb[c].config, cb[c].identity, u)
               \/ Denied(cb[c].identity, u)
            THEN CallbackEnds(c, "failed") /\ UNCHANGED <<people, accounts, sessions, members>>
            ELSE IF ~AudiencesParse
            THEN CallbackEnds(c, "corrupt") /\ UNCHANGED <<people, accounts, sessions, members>>
            ELSE issued(c, u)
      BY <2>1 DEF issue_federated
    <2>3. cb[c].pc = "verified" /\ UNCHANGED <<registry, audience, private, creds, attempts, req>>
      BY <2>1 DEF issue_federated
    <2>4. CASE /\ CallbackEnds(c, "failed") \/ CallbackEnds(c, "corrupt")
               /\ UNCHANGED <<people, accounts, sessions, members>>
      BY <2>4, EndsBadly, StandStill
    <2>5. CASE /\ ~Conflict(attempts[cb[c].attempt].provider, cb[c].config, cb[c].identity, u)
               /\ ~Denied(cb[c].identity, u) /\ issued(c, u)
      <3>1. SignedIn(c, u)
        BY <2>3, <2>5, IssueKeeps
      <3>2. u \in Users
        BY <3>1 DEF SignedIn
      <3> QED BY <2>3, <3>1, <3>2
    <2> QED BY <2>2, <2>4, <2>5
  <1>4. CASE \E c \in Callbacks :
               \/ \E a \in Attempts : begin_callback(c, a)
               \/ load_runtime(c)
               \/ \E id \in Identities : verify(c, id)
               \/ abandon(c)
    BY <1>4, CallbackStands
  <1>5. CASE \E r \in WebRequests :
               \/ \E s \in sessions : resolve(r, s)
               \/ \E u \in Users, role \in {"admin", "user"} : change_role(r, u, role)
               \/ \E u \in Users : revoke_access(r, u) \/ restore_access(r, u)
               \/ retire_owned_credentials(r) \/ connect(r) \/ revoke_session(r) \/ die(r)
               \/ \E ch \in PrivateChannels : create_channel(r, ch)
               \/ \E p \in DynamicProviders :
                     remove_provider(r, p) \/ \E config \in Configs : write_provider(r, p, config)
    BY <1>5, RequestStands, ChangeRoleStands, RevokeStands, RestoreStands, ProviderStands
  <1>6. CASE \E aud \in [PackageChannels -> Audiences] : synchronize(aud)
    BY <1>6, SynchronizeStands
  <1> QED BY <1>1, <1>2, <1>3, <1>4, <1>5, <1>6 DEF SignInNext

\* A refused session was minted with an earlier generation, and generations grow.
LEMMA DeadStayDead ==
    ASSUME SignInAssumption, SignInInv, [SignInNext]_signInVars, NEW s \in sessions, ~Resolves(s)
    PROVE  s \notin sessions' \/ ~Resolves(s)'
  <1>1. s.user \in Users /\ s.gen \in Nat /\ Person(s.user) /\ s.gen < users[s.user].gen
        /\ users[s.user].gen \in Nat
    BY DEF SignInInv, PeopleTyped, Tokens, Listed, Resolves, Person, Records
  <1>2. SignInInv'
    BY SignInNextKeeps, SignInStutters
  <1>3. users' \in [Users -> Records \cup {Nil}]
    BY <1>2 DEF SignInInv, PeopleTyped
  <1>4. users'[s.user] # Nil /\ users'[s.user].gen >= users[s.user].gen
    <2>1. CASE SignsNobodyIn
      BY <1>1, <2>1 DEF SignsNobodyIn, SamePeople, Person
    <2>2. CASE \E c \in Callbacks, u \in Users : SignedIn(c, u)
      BY <1>1, <2>2 DEF SignedIn, Person
    <2> QED BY <2>1, <2>2, StepsSignIn
  <1>5. users'[s.user].gen \in Nat
    BY <1>1, <1>3, <1>4 DEF Records
  <1>6. s.gen # users'[s.user].gen
    BY <1>1, <1>4, <1>5
  <1> QED BY <1>6 DEF Resolves

\* A session resolve_token refuses once is refused for good: change_access and
\* change_role advance the generation, and nothing takes it back.
THEOREM RefusedSessionsStayRefused ==
    ASSUME SignInAssumption
    PROVE  SignInSpec => DeadNeverRevives
  <1>1. SignInInv /\ [SignInNext]_signInVars =>
            [\A s \in sessions : ~Resolves(s) => (s \notin sessions' \/ ~Resolves(s)')]_signInVars
    BY DeadStayDead
  <1> QED BY <1>1, SignInInvHolds, PTL DEF SignInSpec, DeadNeverRevives

\* A sign-in hands out a session the next request can use: issue_federated mints it
\* with the generation its own changes left.
THEOREM NewSessionsResolve ==
    ASSUME SignInAssumption
    PROVE  SignInSpec => SignInYieldsUsable
  <1>1. ASSUME SignInInv, [SignInNext]_signInVars
        PROVE  \A s \in sessions' \ sessions : Resolves(s)'
    <2>1. CASE SignsNobodyIn
      BY <2>1 DEF SignsNobodyIn
    <2>2. CASE \E c \in Callbacks, u \in Users : SignedIn(c, u)
      BY <2>2 DEF SignedIn, Resolves
    <2> QED BY <1>1, <2>1, <2>2, StepsSignIn
  <1>2. SignInInv /\ [SignInNext]_signInVars => [\A s \in sessions' \ sessions : Resolves(s)']_signInVars
    BY <1>1
  <1> QED BY <1>2, SignInInvHolds, PTL DEF SignInSpec, SignInYieldsUsable

\* An effective administrator remains: authorize_role_change and
\* authorize_access_change count the others under lock_people, and a sign-in takes
\* no role away.
THEOREM AnAdminRemains ==
    ASSUME SignInAssumption
    PROVE  SignInSpec => AdminRemains
  <1>1. ASSUME SignInInv, [SignInNext]_signInVars
        PROVE  AdminStays
    <2>1. CASE SignsNobodyIn
      BY <2>1 DEF SignsNobodyIn
    <2>2. CASE \E c \in Callbacks, u \in Users : SignedIn(c, u)
      <3>1. \A v \in Users : EffectiveAdmin(v) => EffectiveAdmin(v)'
        BY <2>2 DEF SignedIn, EffectiveAdmin, Person
      <3> QED BY <3>1 DEF AdminStays
    <2> QED BY <1>1, <2>1, <2>2, StepsSignIn
  <1>2. SignInInv /\ [SignInNext]_signInVars =>
            [(\E u \in Users : EffectiveAdmin(u)) => (\E u \in Users : EffectiveAdmin(u))']_signInVars
    BY <1>1 DEF AdminStays
  <1> QED BY <1>2, SignInInvHolds, PTL DEF SignInSpec, AdminRemains

\* A sign-in is that of the person its subject is anchored to, whoever holds the
\* address the provider reports (issue_federated).
THEOREM SignInsFollowTheAnchor ==
    ASSUME SignInAssumption
    PROVE  SignInSpec => SignInFollowsAnchor
  <1>1. ASSUME SignInInv, [SignInNext]_signInVars, NEW c \in Callbacks,
               cb[c].pc = "verified", cb'[c].pc = "signed_in",
               NEW s \in sessions', s.via = cb[c].attempt, NEW a \in accounts',
               a.provider = attempts[cb[c].attempt].provider, a.subject = cb[c].identity.subject
        PROVE  a.user = s.user
    <2>1. PICK d \in Callbacks, u \in Users : SignedIn(d, u)
      BY <1>1, StepsSignIn DEF SignsNobodyIn
    <2>2. d = c
      BY <1>1, <2>1 DEF SignedIn
    <2> QED BY <1>1, <2>1, <2>2 DEF SignedIn
  <1>2. SignInInv /\ [SignInNext]_signInVars =>
            [\A c \in Callbacks : (cb[c].pc = "verified" /\ cb'[c].pc = "signed_in") =>
               LET p == attempts[cb[c].attempt].provider IN
               \A s \in sessions' : s.via = cb[c].attempt =>
                   \A a \in accounts' : a.provider = p /\ a.subject = cb[c].identity.subject => a.user = s.user]_signInVars
    BY <1>1
  <1> QED BY <1>2, SignInInvHolds, PTL DEF SignInSpec, SignInFollowsAnchor
=============================================================================

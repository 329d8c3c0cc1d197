-------------------------- MODULE PostgresSidecar --------------------------
(***************************************************************************)
(* The desktop application's own PostgreSQL server: how one data directory *)
(* is claimed, initialised, served and stopped by successive runs of the   *)
(* application, each of which may die between any two writes               *)
(* (postgres_sidecar.rs and its journals, desktop_local_bootstrap.rs).     *)
(*                                                                         *)
(* Files survive a crash; `app` does not.  Spawned processes survive too   *)
(* (kill_on_drop needs a live owner).  A journal or witness file is        *)
(* replaced atomically (candidate, sync, rename), so a write is one step;  *)
(* the start lock is created and then filled, which is two.  A write that  *)
(* reports an error after the lock was preserved leaves what a crash before *)
(* or after it leaves, so `crash` stands for both; a first publication cut *)
(* short between its hard link and its unlink is refused by every later    *)
(* run and is left out.  Nobody but the owner of the kernel lock changes   *)
(* the files.  Epochs and secrets are random in the code: here the next    *)
(* number, so they never collide.                                          *)
(***************************************************************************)
EXTENDS Naturals, FiniteSets

CONSTANTS
    MaxStarts,  \* bound on runs of the application
    SlowOpen    \* may an orphaned server be scheduled only after a new run began?

SidecarAssumption == MaxStarts \in Nat \ {0} /\ SlowOpen \in BOOLEAN

VARIABLES
    lock,       \* the start-lock file: absent, created but empty, or filled
    startup,    \* the startup journal: phase and observed server
    helper,     \* the helper journal: phase and kind of helper
    witness,    \* recovery epoch and the consumed/required/applied witnesses
    scram,      \* phase of the secret-creation journal
    store,      \* the secret in the OS key store, 0 when there is none
    data,       \* the data directory and the secret its cluster was made with
    pidFile,    \* the server that postmaster.pid names, 0 when absent
    bumps,      \* auth_generation advances committed for each epoch
    server,     \* the servers, by the run that spawned them
    kid,        \* the helper process
    app         \* the running application

files == <<lock, startup, helper, witness, scram, store>>
cluster == <<data, pidFile, bumps, server, kid>>
vars == <<files, cluster, app>>

AppRuns == 1..MaxStarts
\* A run mints at most one epoch, and the first run none.
Epochs == 0..(MaxStarts - 1)

\* HelperKind in the order of `next`; VersionPostgres is 1 and VersionInitdb 2.
VersionPostgres == 1
VersionPgCtl == 3
Initdb == 4

MidStartup == {"spawn_entered", "child_observed", "ready", "stop_entered"}
Steps == {"down", "verify", "recover", "recover_helper", "reverify", "unlock", "create",
          "fill", "inspect", "begin_helpers", "spawn_helper", "record_helper",
          "wait_helper", "disposition", "complete_existing", "secret", "require",
          "consume", "prepare", "enter_write", "write", "readback", "begin_initdb",
          "complete_fresh", "configure", "unstale", "begin_spawn", "spawn",
          "record_child", "wait_ready", "mark_ready", "running", "bump", "apply",
          "clear", "open", "stop", "pg_ctl", "confirm_exit", "release"}

NoApp == [pc |-> "down", run |-> 0, keep |-> FALSE, pending |-> FALSE,
          origin |-> "none", secret |-> 0]

TypeOK ==
    /\ lock \in {"absent", "blank", "bound"}
    /\ startup \in [phase : MidStartup \cup {"absent", "exit_confirmed"}, child : 0..MaxStarts]
    /\ helper \in [phase : {"absent", "spawn_entered", "child_observed", "exit_confirmed",
                            "helpers_complete"}, kind : 0..Initdb]
    /\ witness \in [epoch : Epochs, consumed : Epochs, required : Epochs, applied : Epochs]
    /\ scram \in {"absent", "prepared", "write_entered", "readback_confirmed"}
    /\ store \in 0..MaxStarts
    /\ data \in [state : {"empty", "partial", "versioned", "complete"}, key : 0..MaxStarts]
    /\ pidFile \in 0..MaxStarts
    /\ bumps \in [Epochs -> Nat]
    /\ server \in [AppRuns -> {"none", "spawned", "open", "gone"}]
    /\ kid \in {"none", "started", "fed", "gone"}
    /\ app \in [pc : Steps, run : 0..MaxStarts, keep : BOOLEAN, pending : BOOLEAN,
                origin : {"none", "fresh", "existing"}, secret : 0..MaxStarts]

Init ==
    /\ lock = "absent"
    /\ startup = [phase |-> "absent", child |-> 0]
    /\ helper = [phase |-> "absent", kind |-> 0]
    /\ witness = [epoch |-> 0, consumed |-> 0, required |-> 0, applied |-> 0]
    /\ scram = "absent" /\ store = 0
    /\ data = [state |-> "empty", key |-> 0]
    /\ pidFile = 0
    /\ bumps = [e \in Epochs |-> 0]
    /\ server = [r \in AppRuns |-> "none"]
    /\ kid = "none"
    /\ app = NoApp

-----------------------------------------------------------------------------
(* What the code reads of the data directory and of the processes *)

\* data_directory_origin: a directory with files but no PG_VERSION is refused.
Origin ==
    CASE data.state = "empty" -> "fresh"
      [] data.state = "partial" -> "invalid"
      [] OTHER -> "existing"

\* observe_data_directory_openers: servers and an initialising helper.
Openers == {r \in AppRuns : server[r] = "open"} \cup (IF kid = "fed" THEN {0} ELSE {})

Live(r) == server[r] \in {"spawned", "open"}
KidLive == kid \in {"started", "fed"}

At(pc) == app.pc = pc
Go(pc) == app' = [app EXCEPT !.pc = pc]

\* An error return: the lock is dropped, and its file removed unless preserved.
Fails ==
    /\ app' = [NoApp EXCEPT !.run = app.run]
    /\ lock' = IF app.keep THEN lock ELSE "absent"

-----------------------------------------------------------------------------
(* Claiming the instance: the kernel lock, the start lock and its reclaim *)

\* The kernel lock is released by the death of its owner, so one run at a time
\* passes it; create_new then finds the start lock absent or left behind.
acquire ==
    /\ At("down") /\ app.run < MaxStarts
    /\ SlowOpen \/ \A r \in AppRuns : server[r] # "spawned"
    /\ LET begun == [NoApp EXCEPT !.run = app.run + 1]
       IN  \/ lock = "absent" /\ lock' = "blank" /\ app' = [begun EXCEPT !.pc = "fill"]
           \/ lock = "bound" /\ app' = [begun EXCEPT !.pc = "verify"] /\ UNCHANGED lock
           \/ lock = "blank" /\ app' = [NoApp EXCEPT !.run = app.run + 1] /\ UNCHANGED lock
    /\ UNCHANGED <<startup, helper, witness, scram, store, cluster>>

AllowsStartup == startup.phase \in {"absent", "exit_confirmed"}

AllowsHelper == helper.phase \in {"absent", "helpers_complete"}

Verified == Openers = {} /\ AllowsStartup /\ AllowsHelper

\* A run that has not claimed the start lock leaves it as it found it.
Refused == app' = [NoApp EXCEPT !.run = app.run] /\ UNCHANGED lock

\* Both journals retired: a new epoch is durable before the evidence is deleted.
verify ==
    /\ At("verify") \/ At("reverify")
    /\ \/ /\ Verified
          /\ witness' = [witness EXCEPT !.epoch = @ + 1]
          /\ Go("unlock") /\ UNCHANGED lock
       \/ /\ ~Verified /\ At("verify")
          /\ Go("recover") /\ UNCHANGED <<lock, witness>>
       \/ ~Verified /\ At("reverify") /\ Refused /\ UNCHANGED witness
    /\ UNCHANGED <<startup, helper, scram, store, cluster>>

\* startup_journal::recover_mid_phase
StartupRecovered ==
    CASE startup.phase = "spawn_entered" -> [phase |-> "absent", child |-> 0]
      [] startup.phase \in MidStartup \ {"spawn_entered"} ->
            [startup EXCEPT !.phase = "exit_confirmed"]
      [] OTHER -> startup

StartupRecoverable ==
    startup.phase \in MidStartup \ {"spawn_entered"} => ~Live(startup.child)

recover_startup ==
    /\ At("recover")
    /\ \/ Openers = {} /\ StartupRecoverable
          /\ startup' = StartupRecovered
          /\ Go("recover_helper") /\ UNCHANGED lock
       \/ ~(Openers = {} /\ StartupRecoverable) /\ Refused /\ UNCHANGED startup
    /\ UNCHANGED <<helper, witness, scram, store, cluster>>

\* helpers_complete_allowed, where it does not reject the directory
CompleteAllowed ==
    \/ helper.kind = VersionPgCtl /\ Origin = "existing"
    \/ helper.kind = Initdb /\ Origin = "fresh"

\* helpers_complete_allowed's errors
CompleteRefused == Origin = "invalid" \/ (helper.kind = Initdb /\ Origin = "existing")

HelperRecoverable ==
    /\ helper.phase \in {"child_observed", "exit_confirmed"} => ~CompleteRefused
    /\ helper.phase = "child_observed" \/ (helper.phase = "exit_confirmed" /\ CompleteAllowed)
           => ~KidLive

\* helper_journal::recover_mid_phase and maybe_complete_helpers
HelperRecovered ==
    CASE helper.phase = "spawn_entered" -> [phase |-> "absent", kind |-> 0]
      [] helper.phase \in {"child_observed", "exit_confirmed"} ->
            [helper EXCEPT !.phase = IF CompleteAllowed THEN "helpers_complete"
                                     ELSE "exit_confirmed"]
      [] OTHER -> helper

recover_helper ==
    /\ At("recover_helper")
    /\ \/ HelperRecoverable /\ helper' = HelperRecovered /\ Go("reverify") /\ UNCHANGED lock
       \/ ~HelperRecoverable /\ Refused /\ UNCHANGED helper
    /\ UNCHANGED <<startup, witness, scram, store, cluster>>

reclaim_start_lock_evidence ==
    /\ At("unlock") /\ lock' = "absent" /\ Go("create")
    /\ UNCHANGED <<startup, helper, witness, scram, store, cluster>>

create_lock ==
    /\ At("create") /\ lock' = "blank" /\ Go("fill")
    /\ UNCHANGED <<startup, helper, witness, scram, store, cluster>>

\* The lock is filled and the epoch and its consumption are read.
fill_lock ==
    /\ At("fill") /\ lock' = "bound"
    /\ app' = [app EXCEPT !.pc = "inspect",
                          !.pending = witness.epoch # 0 /\ witness.consumed # witness.epoch]
    /\ UNCHANGED <<startup, helper, witness, scram, store, cluster>>

\* Both journals must be absent or retired, a retired startup journal needs a
\* cluster, and nobody may have the directory open; only then is the lock kept.
Admissible ==
    /\ AllowsStartup /\ AllowsHelper
    /\ startup.phase = "exit_confirmed" => Origin = "existing"
    /\ Openers = {}

inspect ==
    /\ At("inspect")
    /\ \/ Admissible /\ app' = [app EXCEPT !.pc = "begin_helpers", !.keep = TRUE] /\ UNCHANGED lock
       \/ ~Admissible /\ Fails
    /\ UNCHANGED <<startup, helper, witness, scram, store, cluster>>

-----------------------------------------------------------------------------
(* The helpers: three version checks, and initdb on an empty directory *)

begin_helper ==
    /\ \/ At("begin_helpers") /\ helper' = [phase |-> "spawn_entered", kind |-> VersionPostgres]
       \/ At("begin_initdb") /\ helper' = [phase |-> "spawn_entered", kind |-> Initdb]
    /\ Go("spawn_helper")
    /\ UNCHANGED <<lock, startup, witness, scram, store, cluster>>

spawn_helper ==
    /\ At("spawn_helper")
    /\ \/ kid' = "started" /\ Go("record_helper") /\ UNCHANGED lock
       \/ Fails /\ UNCHANGED kid
    /\ UNCHANGED <<startup, helper, witness, scram, store, data, pidFile, bumps, server>>

\* The journal names the child before initdb receives the secret it waits for.
Recorded == [helper EXCEPT !.phase = "child_observed"]

record_helper ==
    /\ At("record_helper")
    /\ \/ /\ helper' = Recorded
          /\ IF helper.kind = Initdb /\ kid = "started"
             THEN kid' = "fed" /\ data' = [data EXCEPT !.key = app.secret]
             ELSE UNCHANGED <<kid, data>>
          /\ Go("wait_helper") /\ UNCHANGED lock
       \/ kid' = "gone" /\ Fails /\ UNCHANGED <<helper, data>>
    /\ UNCHANGED <<startup, witness, scram, store, pidFile, bumps, server>>

\* The child is waited for: it succeeded, or it failed or was late and is killed,
\* which may itself fail.
wait_helper ==
    /\ At("wait_helper")
    /\ \/ /\ kid = "gone"
          /\ helper.kind = Initdb => data.state = "complete"
          /\ \/ /\ helper.kind < VersionPgCtl
                /\ \/ helper.phase = "child_observed"
                      /\ helper' = [helper EXCEPT !.phase = "exit_confirmed"] /\ Go("wait_helper")
                   \/ helper.phase = "exit_confirmed"
                      /\ helper' = [phase |-> "spawn_entered", kind |-> helper.kind + 1]
                      /\ Go("spawn_helper")
             \/ /\ helper.kind >= VersionPgCtl /\ helper.phase = "child_observed"
                /\ helper' = [helper EXCEPT !.phase = "exit_confirmed"]
                /\ Go(IF helper.kind = VersionPgCtl THEN "disposition" ELSE "complete_fresh")
          /\ UNCHANGED <<lock, kid>>
       \/ /\ helper.phase = "child_observed"
          /\ kid' \in {kid, "gone"} /\ Fails /\ UNCHANGED helper
    /\ UNCHANGED <<startup, witness, scram, store, data, pidFile, bumps, server>>

\* The directory is classified; an existing cluster ends the helpers here.
disposition ==
    /\ At("disposition")
    /\ LET classified == [app EXCEPT !.origin = Origin]
       IN  \/ /\ Origin = "existing"
              /\ app' = [classified EXCEPT !.pc = "complete_existing"] /\ UNCHANGED lock
           \/ /\ Origin = "fresh" /\ startup.phase # "exit_confirmed"
              /\ app' = [classified EXCEPT !.pc = "secret"] /\ UNCHANGED lock
           \/ /\ Origin = "invalid" \/ (Origin = "fresh" /\ startup.phase = "exit_confirmed")
              /\ Fails
    /\ UNCHANGED <<startup, helper, witness, scram, store, cluster>>

mark_complete ==
    /\ At("complete_existing") \/ At("complete_fresh")
    /\ helper' = [helper EXCEPT !.phase = "helpers_complete"]
    /\ Go(IF At("complete_existing") THEN "secret" ELSE "configure")
    /\ UNCHANGED <<lock, startup, witness, scram, store, cluster>>

-----------------------------------------------------------------------------
(* load_or_create_scram_secret *)

Fresh == app.origin = "fresh"

\* The journal or the store contradicts the directory: reconciliation is needed.
Contradicted ==
    \/ scram = "write_entered"
    \/ scram = "prepared" /\ (~Fresh \/ store # 0)
    \/ scram = "readback_confirmed" /\ store = 0
    \/ scram = "absent" /\ store = 0 /\ ~Fresh

Creates == scram \in {"absent", "prepared"} /\ store = 0 /\ Fresh

AfterSecret == IF Fresh THEN "begin_initdb" ELSE "configure"

Owes == app.pending /\ (Creates \/ ~Fresh)

load_secret ==
    /\ At("secret")
    /\ \/ Contradicted /\ Fails
       \/ Fails     \* the key store does not answer
       \/ /\ ~Contradicted
          /\ app' = [app EXCEPT !.secret = store,
                                !.pc = CASE Owes -> "require"
                                         [] Creates -> "prepare"
                                         [] OTHER -> AfterSecret]
          /\ UNCHANGED lock
    /\ UNCHANGED <<startup, helper, witness, scram, store, cluster>>

\* consume_recovery_epoch_if_pending: the obligation is planted before the
\* epoch counts as consumed.
Required == [witness EXCEPT !.required = witness.epoch]

write_required ==
    /\ At("require") /\ witness' = Required /\ Go("consume")
    /\ UNCHANGED <<lock, startup, helper, scram, store, cluster>>

write_consumed ==
    /\ At("consume") /\ witness' = [witness EXCEPT !.consumed = witness.epoch]
    /\ app' = [app EXCEPT !.pending = FALSE, !.pc = IF Creates THEN "prepare" ELSE AfterSecret]
    /\ UNCHANGED <<lock, startup, helper, scram, store, cluster>>

prepare ==
    /\ At("prepare") /\ scram' = "prepared" /\ Go("enter_write")
    /\ UNCHANGED <<lock, startup, helper, witness, store, cluster>>

enter_write ==
    /\ At("enter_write")
    /\ scram' = "write_entered" /\ Go("write")
    /\ UNCHANGED <<lock, startup, helper, witness, store, cluster>>

\* Neither an OS store error nor its absence tells whether the secret is there.
store_write ==
    /\ At("write") /\ store' \in {store, app.run}
    /\ \/ Go("readback") /\ UNCHANGED lock
       \/ Fails
    /\ UNCHANGED <<startup, helper, witness, scram, cluster>>

\* The generated secret is used only when the store returns the same bytes.
MutPersisted == TRUE
Persisted == store = app.run

readback ==
    /\ At("readback")
    /\ \/ /\ Persisted /\ scram' = "readback_confirmed"
          /\ app' = [app EXCEPT !.secret = app.run, !.pc = "begin_initdb"] /\ UNCHANGED lock
       \/ Fails /\ UNCHANGED scram
    /\ UNCHANGED <<startup, helper, witness, store, cluster>>

-----------------------------------------------------------------------------
(* Starting the server *)

\* The port is reserved and the configuration written; an existing directory is
\* checked for openers again.
configure ==
    /\ At("configure")
    /\ \/ Fresh /\ Go("begin_spawn") /\ UNCHANGED lock
       \/ ~Fresh /\ Openers = {} /\ Go("unstale") /\ UNCHANGED lock
       \/ ~Fresh /\ Openers # {} /\ Fails
    /\ UNCHANGED <<startup, helper, witness, scram, store, cluster>>

remove_stale_postmaster_pid ==
    /\ At("unstale") /\ pidFile' = 0 /\ Go("begin_spawn")
    /\ UNCHANGED <<files, data, bumps, server, kid>>

begin_spawn ==
    /\ At("begin_spawn")
    /\ startup' = [phase |-> "spawn_entered", child |-> 0] /\ Go("spawn")
    /\ UNCHANGED <<lock, helper, witness, scram, store, cluster>>

spawn_postgres ==
    /\ At("spawn")
    /\ \/ server' = [server EXCEPT ![app.run] = "spawned"] /\ Go("record_child") /\ UNCHANGED lock
       \/ Fails /\ UNCHANGED server
    /\ UNCHANGED <<startup, helper, witness, scram, store, data, pidFile, bumps, kid>>

\* terminate_child: killed, or the kill or the wait for it fails.
Terminated(terminated) ==
    server' = [server EXCEPT ![app.run] = IF terminated THEN "gone" ELSE @]

record_child ==
    /\ At("record_child")
    /\ \/ /\ startup' = [phase |-> "child_observed", child |-> app.run]
          /\ Go("wait_ready") /\ UNCHANGED <<lock, server>>
       \/ (\E t \in BOOLEAN : Terminated(t)) /\ Fails /\ UNCHANGED startup
    /\ UNCHANGED <<helper, witness, scram, store, data, pidFile, bumps, kid>>

\* wait_until_ready: ready, or it exited or is late and is killed.
Unready ==
    \/ Terminated(TRUE) /\ Go("confirm_exit") /\ UNCHANGED lock
    \/ Terminated(FALSE) /\ Fails

wait_until_ready ==
    /\ At("wait_ready")
    /\ \/ server[app.run] = "open" /\ Go("mark_ready") /\ UNCHANGED <<lock, server>>
       \/ Unready
    /\ UNCHANGED <<startup, helper, witness, scram, store, data, pidFile, bumps, kid>>

mark_ready ==
    /\ At("mark_ready")
    /\ \/ /\ startup' = [startup EXCEPT !.phase = "ready"]
          /\ Go("running") /\ UNCHANGED <<lock, server>>
       \/ (\E t \in BOOLEAN : Terminated(t)) /\ Fails /\ UNCHANGED startup
    /\ UNCHANGED <<helper, witness, scram, store, data, pidFile, bumps, kid>>

-----------------------------------------------------------------------------
(* complete_after_vault: the invalidation owed to a recovery, then the window *)

Outstanding == witness.epoch # 0 /\ witness.required = witness.epoch

AlreadyApplied == witness.applied = witness.epoch

\* Bootstrap succeeds, or the data plane is cleaned up.
complete_after_vault ==
    /\ At("running")
    /\ \/ Go(CASE ~Outstanding -> "open"
               [] Outstanding /\ AlreadyApplied -> "clear"
               [] OTHER -> "bump")
       \/ Go("stop")
    /\ UNCHANGED <<files, cluster>>

\* The transaction commits, fails, or commits after the caller gave up on it.
advance_auth_generation ==
    /\ At("bump")
    /\ \/ /\ bumps' = [bumps EXCEPT ![witness.epoch] = @ + 1]
          /\ Go("apply") \/ Go("stop")
       \/ Go("stop") /\ UNCHANGED bumps
    /\ UNCHANGED <<files, data, pidFile, server, kid>>

mark_applied ==
    /\ At("apply")
    /\ \/ witness' = [witness EXCEPT !.applied = witness.epoch] /\ Go("clear")
       \/ Go("stop") /\ UNCHANGED witness
    /\ UNCHANGED <<lock, startup, helper, scram, store, cluster>>

clear_required ==
    /\ At("clear")
    /\ witness' = [witness EXCEPT !.required = 0]
    /\ Go("open") \/ Go("stop")
    /\ UNCHANGED <<lock, startup, helper, scram, store, cluster>>

close ==
    /\ At("open") /\ Go("stop")
    /\ UNCHANGED <<files, cluster>>

-----------------------------------------------------------------------------
(* shutdown *)

mark_stop ==
    /\ At("stop") /\ startup' = [startup EXCEPT !.phase = "stop_entered"] /\ Go("pg_ctl")
    /\ UNCHANGED <<lock, helper, witness, scram, store, cluster>>

\* pg_ctl stops a live server; otherwise the child is killed best-effort and the
\* lock left for the next run.
pg_ctl_stop ==
    /\ At("pg_ctl")
    /\ \/ /\ server[app.run] = "open" /\ Terminated(TRUE)
          /\ pidFile' = IF pidFile = app.run THEN 0 ELSE pidFile
          /\ Go("confirm_exit") /\ UNCHANGED lock
       \/ (\E t \in BOOLEAN : Terminated(t)) /\ Fails /\ UNCHANGED pidFile
    /\ UNCHANGED <<startup, helper, witness, scram, store, data, bumps, kid>>

confirm_exit ==
    /\ At("confirm_exit")
    /\ startup' = [startup EXCEPT !.phase = "exit_confirmed"]
    /\ app' = [app EXCEPT !.pc = "release", !.keep = FALSE]
    /\ UNCHANGED <<lock, helper, witness, scram, store, cluster>>

release ==
    /\ At("release") /\ Fails
    /\ UNCHANGED <<startup, helper, witness, scram, store, cluster>>

-----------------------------------------------------------------------------
(* The processes and the machine (external) *)

\* A server takes the directory unless another one has it: PostgreSQL's own
\* interlocks, the pid file and the shared memory block, are the last resort.
server_opens(r) ==
    /\ server[r] = "spawned"
    /\ IF \E o \in AppRuns : server[o] = "open"
       THEN server' = [server EXCEPT ![r] = "gone"] /\ UNCHANGED pidFile
       ELSE server' = [server EXCEPT ![r] = "open"] /\ pidFile' = r
    /\ UNCHANGED <<files, data, bumps, kid, app>>

server_dies(r) ==
    /\ Live(r) /\ server' = [server EXCEPT ![r] = "gone"]
    /\ UNCHANGED <<files, data, pidFile, bumps, kid, app>>

\* initdb with its password; killed it leaves what it wrote, failing it cleans up.
initdb_step ==
    /\ kid = "fed"
    /\ \/ data.state = "empty" /\ data' = [data EXCEPT !.state = "partial"] /\ UNCHANGED kid
       \/ data.state = "partial" /\ data' = [data EXCEPT !.state = "versioned"] /\ UNCHANGED kid
       \/ data.state = "versioned" /\ data' = [data EXCEPT !.state = "complete"] /\ UNCHANGED kid
       \/ data.state # "complete" /\ data' = [state |-> "empty", key |-> 0] /\ kid' = "gone"
    /\ UNCHANGED <<files, pidFile, bumps, server, app>>

\* A helper ends; a version check has nothing else to do.
kid_ends ==
    /\ KidLive /\ kid' = "gone"
    /\ UNCHANGED <<files, data, pidFile, bumps, server, app>>

crash ==
    /\ ~At("down") /\ app' = [NoApp EXCEPT !.run = app.run]
    /\ UNCHANGED <<files, cluster>>

Claim == acquire \/ verify \/ recover_startup \/ recover_helper
         \/ reclaim_start_lock_evidence \/ create_lock \/ fill_lock \/ inspect
Help == begin_helper \/ spawn_helper \/ record_helper \/ wait_helper \/ disposition
        \/ mark_complete
Secret == load_secret \/ write_required \/ write_consumed \/ prepare \/ enter_write
          \/ store_write \/ readback
Serve == configure \/ remove_stale_postmaster_pid \/ begin_spawn \/ spawn_postgres
         \/ record_child \/ wait_until_ready \/ mark_ready
Open == complete_after_vault \/ advance_auth_generation \/ mark_applied \/ clear_required
        \/ close
Stop == mark_stop \/ pg_ctl_stop \/ confirm_exit \/ release
World == (\E r \in AppRuns : server_opens(r) \/ server_dies(r)) \/ initdb_step \/ kid_ends
         \/ crash

Next == Claim \/ Help \/ Secret \/ Serve \/ Open \/ Stop \/ World

Spec == Init /\ [][Next]_vars

-----------------------------------------------------------------------------
(* Properties *)

\* The application never has a second server process for its data directory,
\* whatever runs died and left one behind (ensure_no_foreign_openers,
\* evidence_process_is_absent); PostgreSQL's own interlocks are not needed.
OneServer == Cardinality({r \in AppRuns : Live(r)}) <= 1

\* A server is only ever started on a cluster that initdb finished: a directory
\* that already has PG_VERSION but was cut short is never taken for an existing
\* one (helpers_complete_allowed; the secret is fed after record_child).
ServedIsComplete == \A r \in AppRuns : Live(r) => data.state = "complete"

\* Whatever attempts to create the secret were cut short, a finished cluster
\* accepts the secret that the key store holds: it is never written twice.
ClusterKeyIsStored == data.state = "complete" => store = data.key

\* A journal left between its phases is always found together with the start
\* lock.  Without the lock a start would not enter the reclaim, and every later
\* one would fail on the journal it cannot retire.
MidPhaseKeepsTheLock ==
    At("down") /\ (startup.phase \in MidStartup
                   \/ helper.phase \in {"spawn_entered", "child_observed", "exit_confirmed"})
        => lock # "absent"

\* A server that outlives its run is never forgotten: while it is alive the
\* start lock is there and the journal is between its phases, so that a later
\* run has to prove it gone before it claims the directory.
OrphansAreRemembered ==
    At("down") => \A r \in AppRuns : Live(r) => lock = "bound" /\ startup.phase \in MidStartup

\* The window never opens on an existing cluster before the credentials issued
\* before the last recovery were invalidated by an advance of auth_generation.
OpenedAfterInvalidation ==
    At("open") /\ app.origin = "existing" /\ witness.epoch # 0 => bumps[witness.epoch] > 0

\* Consuming an epoch never loses its obligation: it is still required, or done.
ConsumedIsOwed ==
    witness.epoch # 0 /\ witness.consumed = witness.epoch
        => witness.required = witness.epoch \/ bumps[witness.epoch] > 0

=============================================================================

--------------------------- MODULE GatewayJournal ---------------------------
(***************************************************************************)
(* The authorization journal of the SDK gateway: one attempt, from the     *)
(* creation of its row to the adopted connection.                          *)
(*                                                                         *)
(* An attempt is a row of gateway_authorization_attempts and an owner in   *)
(* memory that is moved from one call to the next and never copied: a call *)
(* that fails drops it.  The owner alternates writes (transactions that    *)
(* move the row one phase on and append the audit event) and requests (an  *)
(* HTTP call to the provider joined with a fence, a transaction that holds *)
(* the actor row FOR SHARE and the attempt row FOR UPDATE from before the  *)
(* first byte until the response headers).  Attempts touch no row but      *)
(* their own, so the module has one; what races with it is the revocation  *)
(* of the actor, the end of the session, the host binding, the caller's    *)
(* cancellation, the deadline of the flow, the database connection and     *)
(* the process.                                                            *)
(***************************************************************************)
EXTENDS Integers, FiniteSets

CONSTANTS MaxRevocations,  \* bound on the revocations of the actor
          MaxLosses        \* bound on the database connections that break

BoundsAssumption == MaxRevocations \in Nat /\ MaxLosses \in Nat

VARIABLES
    gen,        \* users.auth_generation; the attempt was authorized at 0
    session,    \* the session row of the actor exists
    host,       \* runtime, issuer and host binding are still the original ones
    cancelled,  \* the original parent token
    expired,    \* the deadline of the saved flow has passed
    row,        \* the attempt row, NoRow before it exists
    adopted,    \* the connection, its secret and their audit event exist
    audited,    \* phases with a committed audit event
    losses,     \* connections that broke
    stage,      \* what the owner is doing
    step,       \* where in a write it is, or "idle", "http", "done"
    expected,   \* the row the owner last proved
    tx,         \* the owner's transaction at the database
    http,       \* the transport future of a request
    fence,      \* the fence future joined with it
    permit,     \* the fence answered with a permit
    headersEnd, \* the fence was ended by the release after the headers
    sends,      \* requests handed to the dialer, per kind
    replied,    \* kinds whose reply the owner accepted
    result      \* "none" while the owner lives

world   == <<gen, session, host, cancelled, expired, losses>>
journalled == <<row, adopted, audited>>
join    == <<http, fence, permit, headersEnd>>
owner   == <<stage, step, expected, result>>
journalVars == <<world, journalled, tx, join, owner, sends, replied>>

Phases == {"created", "registration_admitted", "registered", "code_admitted",
           "closed"}
Kinds  == {"registration", "token", "metadata", "profile"}
Writes == {"create", "admit", "close", "registered", "code", "adopt"}
Stages == Kinds \cup Writes
          \cup {"created", "admitted", "offer", "callback", "verified", "tokens", "over"}
Steps  == {"idle", "begin", "lock", "row", "commit", "ack", "read", "http",
           "done"}
Unset  == "none"

NoTx == [server |-> "none", actor |-> FALSE, row |-> FALSE, next |-> Unset]

(***************************************************************************)
(* The attempt row: its phase and which of the later columns are set.  The *)
(* row of a refused transition is NoRow.                                   *)
(***************************************************************************)
NoRow == [phase |-> Unset, client |-> FALSE, admitted_at |-> FALSE, code_at |-> FALSE,
          finished |-> FALSE]
Rows  == [phase : Phases \cup {Unset}, client : BOOLEAN, admitted_at : BOOLEAN,
          code_at : BOOLEAN, finished : BOOLEAN]

created_row == [NoRow EXCEPT !.phase = "created"]

admitted_row(old) ==
    IF old = created_row
    THEN [old EXCEPT !.phase = "registration_admitted", !.admitted_at = TRUE]
    ELSE NoRow

registered_row(old) ==
    IF old = admitted_row(created_row)
    THEN [old EXCEPT !.phase = "registered", !.client = TRUE]
    ELSE NoRow

code_admitted_row(old) ==
    IF old.phase = "registered" /\ old.client /\ old.admitted_at
       /\ ~old.code_at /\ ~old.finished
    THEN [old EXCEPT !.phase = "code_admitted", !.code_at = TRUE]
    ELSE NoRow

closed_row(old) ==
    IF /\ old.phase \in {"created", "registration_admitted"}
       /\ old.admitted_at = (old.phase = "registration_admitted")
       /\ ~old.client /\ ~old.code_at /\ ~old.finished
    THEN [old EXCEPT !.phase = "closed", !.finished = TRUE]
    ELSE NoRow

\* The row a write of the owner leaves; the adoption leaves it as it is.
TargetRow(op, old) ==
    CASE op = "create" -> created_row
      [] op = "admit" -> admitted_row(old)
      [] op = "registered" -> registered_row(old)
      [] op = "code" -> code_admitted_row(old)
      [] op = "close" -> closed_row(old)
      [] op = "adopt" -> old

\* The phase the fence of a request wants to see.
Admission(kind) ==
    IF kind = "registration" THEN "registration_admitted" ELSE "code_admitted"

\* What follows a write that was read back.
AfterWrite(op) ==
    CASE op = "create" -> <<"created", "idle">>
      [] op = "admit" -> <<"admitted", "idle">>
      [] op = "registered" -> <<"offer", "idle">>
      [] op = "code" -> <<"token", "http">>
      [] OTHER -> <<"over", "done">>

ThenSkipsProfile(kind) ==
    CASE kind = "registration" -> <<"registered", "begin">>
      [] kind = "token" -> <<"tokens", "idle">>
      [] OTHER -> <<"adopt", "begin">>

\* What follows an accepted reply.
Then(kind) ==
    CASE kind = "registration" -> <<"registered", "begin">>
      [] kind = "token" -> <<"tokens", "idle">>
      [] kind = "metadata" -> <<"profile", "http">>
      [] kind = "profile" -> <<"adopt", "begin">>

JournalInit ==
    /\ gen = 0 /\ session = TRUE /\ host = TRUE
    /\ cancelled = FALSE /\ expired = FALSE /\ losses = 0
    /\ row = NoRow /\ adopted = FALSE /\ audited = {}
    /\ stage = "create" /\ step = "begin" /\ expected = NoRow
    /\ tx = NoTx
    /\ http = "off" /\ fence = "off" /\ permit = FALSE /\ headersEnd = FALSE
    /\ sends = [k \in Kinds |-> 0] /\ replied = {}
    /\ result = Unset

-----------------------------------------------------------------------------
(* Checks every operation repeats.                                         *)

\* OperationGate::check with the host witness: the flow was not cancelled, its
\* deadline has not passed, the runtime, the issuer and the binding are current.
Current == ~cancelled /\ ~expired /\ host

\* decode_actor: the generation and the session of the authorization.
ActorCurrent == gen = 0 /\ session

\* The owner is dropped: no later call can use it.  A transaction it still
\* has is dropped with it and left to the server.
Dropped ==
    /\ result' = "failed" /\ stage' = "over" /\ step' = "done"
    /\ http' = "off" /\ fence' = "off" /\ permit' = FALSE /\ headersEnd' = FALSE
    /\ UNCHANGED <<world, journalled, tx, expected, sends, replied>>

-----------------------------------------------------------------------------
(* The calls of the caller between operations.                             *)

\* prepare_initial, owner_gate and the caller's next call.
Call(from, to, at) ==
    /\ result = Unset /\ stage = from /\ step = "idle"
    /\ Current
    /\ stage' = to /\ step' = at
    /\ http' = IF at = "http" THEN "framed" ELSE "off"
    /\ fence' = IF at = "http" THEN "waiting" ELSE "off"
    /\ UNCHANGED <<world, journalled, tx, permit, headersEnd, expected, result, sends,
                   replied>>

AdmitRegistration == Call("created", "admit", "begin")
CloseCreated      == Call("created", "close", "begin")
CloseAdmitted     == Call("admitted", "close", "begin")
RegisterAdmitted  == Call("admitted", "registration", "http")

\* start_callback: the authorization URL is taken and handed to the host once.
HandOffUrl == Call("offer", "callback", "idle")

\* wait_callback: the listener delivered a code for the original state, the row
\* is read back read-only, and the page is answered.
CallbackVerified ==
    /\ Call("callback", "verified", "idle")
    /\ ActorCurrent /\ row = expected

\* take_verified_for_token and the capture of the token request.
CaptureToken == Call("verified", "code", "begin")

\* enroll: the token owner and the name are checked, the reserved identifier
\* is fixed.
Enroll == Call("tokens", "metadata", "http")

-----------------------------------------------------------------------------
(* A write: one transaction, its commit, and an exact readback.            *)

Writing(at) == result = Unset /\ stage \in Writes /\ step = at

BeginWrite ==
    /\ Writing("begin") /\ Current
    /\ tx.server \in {Unset, "committed", "aborted"}
    /\ tx' = [NoTx EXCEPT !.server = "open"]
    /\ step' = "lock"
    /\ UNCHANGED <<world, journalled, join, stage, expected, result, sends, replied>>

\* lock_actor: FOR SHARE OF u, so a revocation waits until the transaction ends.
LockActorOf(t) == [t EXCEPT !.actor = TRUE]

LockActor ==
    /\ Writing("lock") /\ Current /\ ActorCurrent
    /\ tx.server = "open"
    /\ tx' = LockActorOf(tx)
    /\ step' = "row"
    /\ UNCHANGED <<world, journalled, join, stage, expected, result, sends, replied>>

\* The locked row is the one the owner proved, and the transition is legal.
RowMatches(op) == row = expected /\ (op # "create" => TargetRow(op, row) # NoRow)

\* lock_attempt, the compare-and-set over all columns, and the audit event.
WriteRow ==
    /\ Writing("row") /\ Current /\ tx.server = "open"
    /\ RowMatches(stage)
    /\ tx' = [tx EXCEPT !.row = TRUE, !.next = stage]
    /\ step' = "commit"
    /\ UNCHANGED <<world, journalled, join, stage, expected, result, sends, replied>>

\* OperationGate::terminal refuses an unsent COMMIT when the gate is closed.
SendCommit ==
    /\ Writing("commit") /\ Current
    /\ tx.server = "open"
    /\ tx' = [tx EXCEPT !.server = "committing"]
    /\ step' = "ack"
    /\ UNCHANGED <<world, journalled, join, stage, expected, result, sends, replied>>

\* The only acknowledgement that lets the owner go on is the server's, in time.
AckProven == tx.server = "committed"

TimelyCommit ==
    /\ Writing("ack") /\ Current
    /\ AckProven
    /\ step' = "read"
    /\ UNCHANGED <<world, journalled, tx, join, stage, expected, result, sends, replied>>

\* readback_exact, read_adoption: a read-only transaction sees the actor and the
\* exact row, and its own rollback is acknowledged.
Exact(op) == row = TargetRow(op, expected) /\ (op = "adopt" => adopted)

Readback ==
    /\ Writing("read") /\ Current /\ ActorCurrent
    /\ Exact(stage)
    /\ tx' = NoTx
    /\ expected' = TargetRow(stage, expected)
    /\ stage' = AfterWrite(stage)[1] /\ step' = AfterWrite(stage)[2]
    /\ result' = CASE stage = "adopt" -> "receipt"
                   [] stage = "close" -> "closed"
                   [] OTHER -> Unset
    /\ http' = IF step' = "http" THEN "framed" ELSE "off"
    /\ fence' = IF step' = "http" THEN "waiting" ELSE "off"
    /\ UNCHANGED <<world, journalled, permit, headersEnd, sends, replied>>

\* Any input or output of a write, or of the calls between writes, fails or
\* finds the gate closed: the owner is gone, whatever the server does with a
\* COMMIT that was sent.
Abandon == result = Unset /\ step # "http" /\ Dropped

-----------------------------------------------------------------------------
(* A request: the transport and its fence, two futures of one task.        *)

Requesting == result = Unset /\ stage \in Kinds /\ step = "http"

\* before_request takes the acquire channel: it can be asked once.
AskPermit ==
    /\ Requesting /\ http = "framed"
    /\ ~cancelled /\ ~expired
    /\ http' = "asking"
    /\ UNCHANGED <<world, journalled, tx, fence, permit, headersEnd, owner, sends, replied>>

FenceBegin ==
    /\ Requesting /\ fence = "waiting" /\ http = "asking" /\ Current
    /\ fence' = "lock"
    /\ tx' = [NoTx EXCEPT !.server = "open"]
    /\ UNCHANGED <<world, journalled, http, permit, headersEnd, owner, sends, replied>>

FenceLockActor ==
    /\ Requesting /\ fence = "lock" /\ Current /\ ActorCurrent
    /\ tx.server = "open"
    /\ fence' = "row"
    /\ tx' = LockActorOf(tx)
    /\ UNCHANGED <<world, journalled, http, permit, headersEnd, owner, sends, replied>>

\* lock_attempt and the exact comparison; then the permit is handed out.
FenceMatches(kind) == row = expected /\ row.phase = Admission(kind)

FencePermit ==
    /\ Requesting /\ fence = "row" /\ Current
    /\ tx.server = "open"
    /\ FenceMatches(stage)
    /\ fence' = "holding" /\ permit' = TRUE
    /\ tx' = [tx EXCEPT !.row = TRUE]
    /\ UNCHANGED <<world, journalled, http, headersEnd, owner, sends, replied>>

\* Checkout, BEGIN, a lock or a comparison fails: the reply is an error.
FenceRefuses ==
    /\ Requesting /\ fence \in {"waiting", "lock", "row"}
    /\ fence' = "failed"
    /\ UNCHANGED <<world, journalled, tx, http, permit, headersEnd, owner, sends, replied>>

\* The transport looks at the token and the deadline before it hands the request
\* to the dialer; the token and enrollment calls also look at the host.
MaySend == permit /\ ~cancelled /\ ~expired /\ (stage # "registration" => host)

SendRequest ==
    /\ Requesting /\ http = "asking"
    /\ MaySend
    /\ http' = "sent"
    /\ sends' = [sends EXCEPT ![stage] = @ + 1]
    /\ UNCHANGED <<world, journalled, tx, fence, permit, headersEnd, owner, replied>>

\* The provider answers; the transport releases the permit and waits for the
\* acknowledgement of the fence.
Headers ==
    /\ Requesting /\ http = "sent"
    /\ http' = "headers"
    /\ UNCHANGED <<world, journalled, tx, fence, permit, headersEnd, owner, sends, replied>>

\* Cancellation, deadline, a refused permit, a transport error.
HttpFails ==
    /\ Requesting /\ http \in {"framed", "asking", "sent", "headers"}
    /\ http' = "failed"
    /\ UNCHANGED <<world, journalled, tx, fence, permit, headersEnd, owner, sends, replied>>

\* The biased selects of the fences that hold: the release and the end of the
\* call come first; the registration's then looks at the token and the timer, the
\* later ones at everything their checked futures look at.
RegistrationHoldEnds == http \in {"headers", "failed"} \/ cancelled \/ expired
TokenHoldEnds        == http \in {"headers", "failed"} \/ ~Current
HeadersHoldEnds      == http \in {"headers", "failed"} \/ ~Current

FenceEnds ==
    /\ Requesting /\ fence = "holding"
    /\ CASE stage = "registration" -> RegistrationHoldEnds
         [] stage = "token" -> TokenHoldEnds
         [] OTHER -> HeadersHoldEnds
    /\ fence' = "rolling"
    /\ headersEnd' = (http = "headers")
    /\ UNCHANGED <<world, journalled, tx, http, permit, owner, sends, replied>>

\* The rollback is acknowledged in time and the witness is still current.
ReleaseProven == tx.server = "open" /\ headersEnd /\ Current

FenceReleases ==
    /\ Requesting /\ fence = "rolling"
    /\ ReleaseProven
    /\ fence' = "released"
    /\ tx' = NoTx
    /\ UNCHANGED <<world, journalled, http, permit, headersEnd, owner, sends, replied>>

\* A late or an unknown acknowledgement, another end, a witness that moved.
FenceFails ==
    /\ Requesting /\ fence = "rolling"
    /\ fence' = "failed"
    /\ UNCHANGED <<world, journalled, tx, http, permit, headersEnd, owner, sends, replied>>

HttpReleased ==
    /\ Requesting /\ http = "headers" /\ fence = "released"
    /\ ~cancelled /\ ~expired
    /\ http' = "released"
    /\ UNCHANGED <<world, journalled, tx, fence, permit, headersEnd, owner, sends, replied>>

\* The join: a response and a fence that released, and a valid body.
Accept ==
    /\ Requesting /\ http = "released" /\ fence = "released" /\ Current
    /\ replied' = replied \cup {stage}
    /\ stage' = Then(stage)[1] /\ step' = Then(stage)[2]
    /\ http' = IF step' = "http" THEN "framed" ELSE "off"
    /\ fence' = IF step' = "http" THEN "waiting" ELSE "off"
    /\ permit' = FALSE /\ headersEnd' = FALSE
    /\ UNCHANGED <<world, journalled, tx, expected, result, sends>>

RegistrationReply == stage = "registration" /\ Accept
TokenReply        == stage = "token" /\ Accept
ReaderReply       == stage \in {"metadata", "profile"} /\ Accept

\* The join with a failure on either side, or a body that is not accepted.
Reject ==
    /\ Requesting
    /\ http \in {"released", "failed"} /\ fence \in {"released", "failed"}
    /\ Dropped

-----------------------------------------------------------------------------
(* The database.                                                           *)

Freed == [tx EXCEPT !.actor = FALSE, !.row = FALSE]

ServerCommits ==
    /\ tx.server = "committing"
    /\ row' = TargetRow(tx.next, row)
    /\ adopted' = (adopted \/ tx.next = "adopt")
    /\ audited' = audited \cup {IF tx.next = "adopt" THEN "adopted" ELSE row'.phase}
    /\ tx' = [Freed EXCEPT !.server = "committed"]
    /\ UNCHANGED <<world, join, owner, sends, replied>>

\* The owner let go of the transaction, or the connection broke under it.
Orphaned == result # Unset \/ (step = "http" /\ fence \in {"failed", "released"})

ServerAborts ==
    /\ tx.server \in {"open", "committing"} /\ Orphaned
    /\ tx' = [Freed EXCEPT !.server = "aborted", !.next = Unset]
    /\ UNCHANGED <<world, journalled, join, owner, sends, replied>>

ConnectionBreaks ==
    /\ tx.server \in {"open", "committing"} /\ losses < MaxLosses
    /\ tx' = [Freed EXCEPT !.server = "aborted", !.next = Unset]
    /\ losses' = losses + 1
    /\ UNCHANGED <<gen, session, host, cancelled, expired, journalled, join, owner, sends,
                   replied>>

-----------------------------------------------------------------------------
(* What races with the attempt.                                            *)

\* advance_generation: an UPDATE of the user's row.
RevokeActor ==
    /\ gen < MaxRevocations /\ ~tx.actor
    /\ gen' = gen + 1
    /\ UNCHANGED <<session, host, cancelled, expired, losses, journalled, tx, join, owner,
                   sends, replied>>

\* The session row is not locked by the fence: it may end at any time.
EndSession ==
    /\ session /\ session' = FALSE
    /\ UNCHANGED <<gen, host, cancelled, expired, losses, journalled, tx, join, owner,
                   sends, replied>>

LoseHost ==
    /\ host /\ host' = FALSE
    /\ UNCHANGED <<gen, session, cancelled, expired, losses, journalled, tx, join, owner,
                   sends, replied>>

Cancel ==
    /\ ~cancelled /\ cancelled' = TRUE
    /\ UNCHANGED <<gen, session, host, expired, losses, journalled, tx, join, owner, sends,
                   replied>>

Expire ==
    /\ ~expired /\ expired' = TRUE
    /\ UNCHANGED <<gen, session, host, cancelled, losses, journalled, tx, join, owner,
                   sends, replied>>

\* The process stops: the owner and its futures are gone, and nothing in the
\* journal takes an attempt up again.
Crash == result = Unset /\ Dropped

\* The transactions of journal.rs, registration.rs, token.rs and enrollment.rs
\* are the same steps over their own stages.
WriteSteps == BeginWrite \/ LockActor \/ WriteRow \/ SendCommit \/ TimelyCommit

JournalWrite    == stage \in {"create", "admit", "close"} /\ WriteSteps
WriteRegistered == stage = "registered" /\ WriteSteps
WriteCode       == stage = "code" /\ WriteSteps
WriteAdoption   == stage = "adopt" /\ WriteSteps
ReadbackExact   == stage # "adopt" /\ Readback
ReadAdoption    == stage = "adopt" /\ Readback

Operation ==
    \/ AdmitRegistration \/ CloseCreated \/ CloseAdmitted \/ RegisterAdmitted
    \/ HandOffUrl \/ CallbackVerified \/ CaptureToken \/ Enroll
    \/ JournalWrite \/ WriteRegistered \/ WriteCode \/ WriteAdoption
    \/ ReadbackExact \/ ReadAdoption
    \/ Abandon

FenceSteps ==
    \/ FenceBegin \/ FenceLockActor \/ FencePermit \/ FenceRefuses
    \/ FenceEnds \/ FenceReleases \/ FenceFails

RegistrationFence == stage = "registration" /\ FenceSteps
TokenFence        == stage = "token" /\ FenceSteps
HeadersFence      == stage \in {"metadata", "profile"} /\ FenceSteps

Request ==
    \/ AskPermit \/ SendRequest \/ Headers \/ HttpFails \/ HttpReleased
    \/ RegistrationFence \/ TokenFence \/ HeadersFence
    \/ RegistrationReply \/ TokenReply \/ ReaderReply \/ Reject

Server == ServerCommits \/ ServerAborts \/ ConnectionBreaks

JournalNext ==
    \/ Operation \/ Request \/ Server
    \/ RevokeActor \/ EndSession \/ LoseHost \/ Cancel \/ Expire \/ Crash

JournalSpec == JournalInit /\ [][JournalNext]_journalVars

\* Time passes; a future whose gate is closed is polled by its timer and fails;
\* a task that can go on is polled; the server ends what nobody holds, and
\* settles a COMMIT it has received.
JournalFairSteps == 1..8

JournalFairStep(f) ==
    \/ f = 1 /\ Expire
    \/ f = 2 /\ expired /\ Abandon
    \/ f = 3 /\ expired /\ HttpFails
    \/ f = 4 /\ expired /\ FenceRefuses
    \/ f = 5 /\ FenceEnds
    \/ f = 6 /\ (FenceFails \/ FenceReleases)
    \/ f = 7 /\ (Reject \/ Accept)
    \/ f = 8 /\ (ServerCommits \/ ServerAborts)

-----------------------------------------------------------------------------
(* Properties.                                                             *)

JournalTypeOK ==
    /\ gen \in 0..MaxRevocations /\ losses \in 0..MaxLosses
    /\ {session, host, cancelled, expired, adopted, permit, headersEnd} \subseteq BOOLEAN
    /\ row \in Rows /\ expected \in Rows
    /\ audited \subseteq Phases \cup {"adopted"}
    /\ stage \in Stages /\ step \in Steps
    /\ tx \in [server : {Unset, "open", "committing", "committed", "aborted"},
               actor : BOOLEAN, row : BOOLEAN, next : Writes \cup {Unset}]
    /\ http \in {"off", "framed", "asking", "sent", "headers", "released", "failed"}
    /\ fence \in {"off", "waiting", "lock", "row", "holding", "rolling", "released",
                  "failed"}
    /\ sends \in [Kinds -> Nat] /\ replied \subseteq Kinds
    /\ result \in {Unset, "failed", "receipt", "closed"}

\* A request leaves at most once per attempt, and only after its admission is
\* durable and audited: a commit whose fate is unknown never leads to a send.
SentIsJournalled ==
    \A k \in Kinds :
        /\ sends[k] <= 1
        /\ sends[k] = 1 => Admission(k) \in audited

\* When a request is handed to the dialer its fence holds the actor and the
\* attempt row, so the authorization is the one the attempt started with; only
\* a database connection that broke under the fence can void that.
SendIsFenced ==
    [][\A k \in Kinds : sends'[k] # sends[k] =>
           \/ tx.actor /\ tx.row /\ gen = 0 /\ row.phase = Admission(k)
           \/ tx.server = "aborted" /\ losses > 0]_journalVars

\* The row and the adopted connection never change once the actor was revoked,
\* not even by a commit whose owner has given up.
WritesAreAuthorized ==
    [][(row' # row \/ adopted' # adopted) => gen = 0]_journalVars

\* A phase is reached only with the replies it stands for, accepted under a
\* fence that released in time; a closed attempt has sent nothing.
PhasesAreEarned ==
    /\ row.phase \in {"registered", "code_admitted"} => "registration" \in replied
    /\ adopted => replied = Kinds
    /\ row.phase = "closed" => \A k \in Kinds : sends[k] = 0

\* A receipt stands for durable rows, and the owner never believes a phase that
\* the database does not have.
ReceiptIsDurable ==
    /\ result = "receipt" => adopted /\ {"code_admitted", "adopted"} \subseteq audited
    /\ result = "closed" => row.phase = "closed"
    /\ result = Unset /\ step \notin {"ack", "read"} => row = expected

\* The journal of an attempt: a request leaves at most once and only after its
\* admission is durable and audited, a phase is reached only with its replies,
\* and what an owner believes or returns is what the database has.
JournalSafety ==
    JournalTypeOK /\ SentIsJournalled /\ PhasesAreEarned /\ ReceiptIsDurable

\* The fence and the writes hold the actor's row across calls to the provider
\* and to the database; they always let a waiting revocation through.
ActorIsReleased == []<>~tx.actor

\* A call of the journal ends by its deadline.
CallEnded == result # Unset \/ step = "idle"
CallsEnd == []<>CallEnded

=============================================================================

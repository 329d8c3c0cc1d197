--------------------------- MODULE McpConnections ---------------------------
(***************************************************************************)
(* One person's OAuth connection to one MCP server: the consent attempt,   *)
(* the callback that stores a refresh token, the rotating refresh before   *)
(* each use, the ways a connection is ended (disconnect, reconnect, a new  *)
(* OAuth client, removal of the server, retirement by an administrator or  *)
(* with the person), and the sweep that revokes ended tokens at the vendor *)
(* (mcp_connections.rs, store/plugin_user_credential.rs and its            *)
(* refresh_operation.rs, credential_admin.rs).                             *)
(*                                                                         *)
(* Every statement group that runs in one PostgreSQL transaction under the *)
(* row locks the code takes is one action; the one transaction whose reads *)
(* are not covered by its locks, the confirmation of a revocation, is two. *)
(* What a request holds between transactions is its worker's record.  The  *)
(* vendor is external: it mints refresh tokens for a client, replaces one  *)
(* on refresh, and kills one on revocation by the client that owns it.     *)
(***************************************************************************)
EXTENDS Naturals, FiniteSets

CONSTANTS
    Creds,      \* ids of rows of credentials with kind mcp_user_token
    Clients,    \* ids of rows with kind mcp_oauth_client
    Attempts,   \* OAuth states (rows of verifications)
    Workers,    \* requests and supervisor sweeps in flight, on any replica
    None,
    Capacity,   \* open consent attempts allowed
    MaxToken,   \* bound: refresh tokens the vendor mints
    MaxStamp,   \* bound: changes of the server row
    MaxGen,     \* bound: changes of the person's auth generation
    MaxCrash,   \* bound: requests that die between two steps
    FirstClient,\* the server's OAuth client at the start, or None
    Rotates     \* requires_refresh_rotation() of the exchanger

BoundsAreNaturals ==
    /\ {Capacity, MaxToken, MaxStamp, MaxGen, MaxCrash} \subseteq Nat
    /\ Rotates \in BOOLEAN /\ FirstClient \in Clients \cup {None}
    /\ None \notin Creds \cup Clients \cup Attempts

VARIABLES
    server,     \* the mcp_servers row: present, its client, its updated_at
    client,     \* mcp_oauth_client rows
    tok,        \* mcp_user_token rows
    conn,       \* the mcp_user_credentials row: the token in use, or None
    ops,        \* the latest oauth_refresh_operations row of each token
    attempt,    \* verifications rows
    actorGen,   \* users.auth_generation
    vendor,     \* external: tokens minted, live, whose, and how often used
    w,          \* what each request or sweep holds
    crashes     \* faults used up

vars == <<server, client, tok, conn, ops, attempt, actorGen, vendor, w, crashes>>

Tokens == 1..MaxToken
Owed == {"pending", "revoking"}      \* statuses the sweep still works on
Reasons == {"none", "reconnected", "disconnect", "rotated", "removed", "retired", "person"}

ClientRow == [state : {"unused", "live", "revoked"},
              status : {"none", "retained", "operator"}]
TokenRow == [state : {"unused", "active", "tombstone"},
             status : {"none", "active", "revoked", "operator"} \cup Owed,
             reason : Reasons, frozen : Clients \cup {None},
             stored : 0..MaxToken, ripe : BOOLEAN]
Op == [state : {"none", "pending", "committed", "unknown", "auth_required"},
       admitted : BOOLEAN]
Attempt == [state : {"unused", "open", "expired", "spent"},
            client : Clients \cup {None}, gen : 0..MaxGen]
Worker == [pc : {"idle", "insert", "callback", "exchange", "persist", "tombstone",
                 "material", "sweep", "revoke", "mark", "commit", "return",
                 "claim", "admit", "send", "finish", "fail"},
           att : Attempts \cup {None}, cred : Creds \cup {None},
           token : 0..MaxToken, new : 0..MaxToken, client : Clients \cup {None},
           gen : 0..MaxGen, stamp : 0..MaxStamp, reason : Reasons,
           frozen : Clients \cup {None}, sweeping : BOOLEAN, failed : BOOLEAN]

Idle == [pc |-> "idle", att |-> None, cred |-> None, token |-> 0, new |-> 0,
         client |-> None, gen |-> 0, stamp |-> 0, reason |-> "none",
         frozen |-> None, sweeping |-> FALSE, failed |-> FALSE]

Spent == [state |-> "spent", client |-> None, gen |-> 0]     \* a deleted row

Init ==
    /\ server = [up |-> TRUE, client |-> FirstClient, stamp |-> 0]
    /\ client = [k \in Clients |-> [state |-> IF k = FirstClient THEN "live" ELSE "unused",
                                    status |-> "none"]]
    /\ tok = [c \in Creds |-> [state |-> "unused", status |-> "none", reason |-> "none",
                               frozen |-> None, stored |-> 0, ripe |-> FALSE]]
    /\ conn = None
    /\ ops = [c \in Creds |-> [state |-> "none", admitted |-> FALSE]]
    /\ attempt = [a \in Attempts |-> [state |-> "unused", client |-> None, gen |-> 0]]
    /\ actorGen = 0
    /\ vendor = [minted |-> 0, live |-> {}, owner |-> [t \in Tokens |-> None],
                 sent |-> [t \in Tokens |-> 0], redeemed |-> [a \in Attempts |-> 0]]
    /\ w = [x \in Workers |-> Idle]
    /\ crashes = 0

(***************************************************************************)
(* Shared pieces.                                                          *)
(***************************************************************************)
\* load_server_client answers: the server's client is registered, not revoked.
ClientUsable ==
    server.up /\ server.client # None /\ client[server.client].state = "live"

\* A row inside an uncommitted confirmation is locked; other writers wait for it.
Locked(c) == \E x \in Workers : w[x].pc = "commit" /\ w[x].cred = c

To(x, r) == w' = [w EXCEPT ![x] = r]
End(x) == To(x, Idle)

\* A token's row once its connection has ended.
Tombstone(c, status, reason, frozen) ==
    [tok[c] EXCEPT !.state = "tombstone", !.status = status, !.reason = reason,
                   !.frozen = frozen, !.ripe = FALSE]

\* The server row was written: updated_at moves.
Touched(k) == [server EXCEPT !.client = k, !.stamp = @ + 1]

\* Uses are counted up to "more than once".
Again(n) == IF n < 2 THEN n + 1 ELSE n

\* The vendor issues one more token to client k.
Minted(k) == [vendor EXCEPT !.minted = @ + 1, !.live = @ \cup {vendor.minted + 1},
                            !.owner[vendor.minted + 1] = k]

(***************************************************************************)
(* Consent: begin_oauth and the callback.                                  *)
(***************************************************************************)
BeginOauth(x, a) ==
    /\ w[x].pc = "idle" /\ attempt[a].state = "unused" /\ ClientUsable
    /\ \A y \in Workers : w[y].att # a
    /\ To(x, [Idle EXCEPT !.pc = "insert", !.att = a, !.client = server.client,
                          !.gen = actorGen])
    /\ UNCHANGED <<server, client, tok, conn, ops, attempt, actorGen, vendor, crashes>>

\* insert_attempt: under the advisory lock drop expired states, count the open
\* ones, and re-check the person and the server the authorization URL was built for.
InsertAttempt(x) ==
    LET kept == [a \in Attempts |-> IF attempt[a].state = "expired"
                                    THEN Spent ELSE attempt[a]]
        admitted == /\ Cardinality({a \in Attempts : kept[a].state = "open"}) < Capacity
                    /\ actorGen = w[x].gen /\ server.up /\ server.client = w[x].client
    IN /\ w[x].pc = "insert"
       /\ attempt' = IF admitted
                     THEN [kept EXCEPT ![w[x].att] = [state |-> "open", client |-> w[x].client,
                                                      gen |-> w[x].gen]]
                     ELSE attempt
       /\ End(x)
       /\ UNCHANGED <<server, client, tok, conn, ops, actorGen, vendor, crashes>>

\* ATTEMPT_TTL passes.
Expire(a) ==
    /\ attempt[a].state = "open"
    /\ attempt' = [attempt EXCEPT ![a].state = "expired"]
    /\ UNCHANGED <<server, client, tok, conn, ops, actorGen, vendor, w, crashes>>

\* consume_attempt deletes the state before anything is validated; an expired state
\* or a callback with a wrong issuer or no code goes no further (go = FALSE).
Consume(x, a, go) ==
    /\ w[x].pc = "idle" /\ attempt[a].state \in {"open", "expired"}
    /\ attempt' = [attempt EXCEPT ![a] = Spent]
    /\ IF go /\ attempt[a].state = "open"
       THEN To(x, [Idle EXCEPT !.pc = "callback", !.att = a, !.client = attempt[a].client,
                               !.gen = attempt[a].gen])
       ELSE End(x)
    /\ UNCHANGED <<server, client, tok, conn, ops, actorGen, vendor, crashes>>

\* ensure_stored_actor_current and load_server_client: the person and the client must
\* be the ones the consent was asked for.
CallbackLoad(x) ==
    /\ w[x].pc = "callback"
    /\ IF actorGen = w[x].gen /\ ClientUsable /\ server.client = w[x].client
       THEN To(x, [w[x] EXCEPT !.pc = "exchange"])
       ELSE End(x)
    /\ UNCHANGED <<server, client, tok, conn, ops, attempt, actorGen, vendor, crashes>>

\* exchange_authorization_code: the vendor mints a refresh token and the reply may be
\* lost, or it refuses the code.
CallbackExchange(x) ==
    /\ w[x].pc = "exchange"
    /\ \/ /\ vendor.minted < MaxToken
          /\ vendor' = [Minted(w[x].client) EXCEPT !.redeemed[w[x].att] = Again(@)]
          /\ \/ To(x, [w[x] EXCEPT !.pc = "persist", !.new = vendor'.minted])
             \/ End(x)
       \/ UNCHANGED vendor /\ End(x)
    /\ UNCHANGED <<server, client, tok, conn, ops, attempt, actorGen, crashes>>

\* persist_connection's re-check under FOR SHARE of the person and the server.
StillAsked(x) == actorGen = w[x].gen /\ server.up /\ server.client = w[x].client

\* persist_connection: the new token replaces the connection in one transaction, the
\* old token becomes a tombstone, and its revocation is tried at once.
Persist(x, c) ==
    /\ w[x].pc = "persist" /\ tok[c].state = "unused" /\ StillAsked(x)
    /\ tok' = [d \in Creds |->
                 IF d = c THEN [state |-> "active", status |-> "active", reason |-> "none",
                                frozen |-> None, stored |-> w[x].new, ripe |-> FALSE]
                 ELSE IF d = conn THEN Tombstone(d, "pending", "reconnected", None)
                 ELSE tok[d]]
    /\ conn' = c
    /\ IF conn = None THEN End(x)
       ELSE To(x, [Idle EXCEPT !.pc = "revoke", !.cred = conn, !.token = tok[conn].stored,
                               !.client = w[x].client])
    /\ UNCHANGED <<server, client, ops, attempt, actorGen, vendor, crashes>>

\* The person or the server changed during the exchange: the token is dropped.
PersistRefused(x) ==
    /\ w[x].pc = "persist" /\ ~StillAsked(x) /\ End(x)
    /\ UNCHANGED <<server, client, tok, conn, ops, attempt, actorGen, vendor, crashes>>

(***************************************************************************)
(* Ending a connection.                                                    *)
(***************************************************************************)
\* disconnect: disconnect_candidate reads the row and opens the token, unlocked.
Disconnect(x) ==
    /\ w[x].pc = "idle" /\ conn # None /\ server.up /\ tok[conn].state = "active"
    /\ To(x, [Idle EXCEPT !.pc = "tombstone", !.cred = conn, !.token = tok[conn].stored,
                          !.gen = actorGen])
    /\ UNCHANGED <<server, client, tok, conn, ops, attempt, actorGen, vendor, crashes>>

\* tombstone_connection: by row id, for an active row of a current person.
TombstoneConnection(x) ==
    /\ w[x].pc = "tombstone"
    /\ IF tok[w[x].cred].state = "active" /\ actorGen = w[x].gen /\ conn = w[x].cred
       THEN /\ tok' = [tok EXCEPT ![w[x].cred] =
                         Tombstone(w[x].cred, "pending", "disconnect", None)]
            /\ conn' = None
            /\ To(x, [w[x] EXCEPT !.pc = "material"])
       ELSE End(x) /\ UNCHANGED <<tok, conn>>
    /\ UNCHANGED <<server, client, ops, attempt, actorGen, vendor, crashes>>

\* The rest of disconnect: with a usable client the vendor is told at once.
DisconnectMaterial(x) ==
    /\ w[x].pc = "material"
    /\ IF ClientUsable THEN To(x, [w[x] EXCEPT !.pc = "revoke", !.client = server.client])
                       ELSE End(x)
    /\ UNCHANGED <<server, client, tok, conn, ops, attempt, actorGen, vendor, crashes>>

\* register_oauth_client: a new client replaces the server's, the old one and every
\* connection under it are retired in the same transaction.
RegisterOauthClient(k) ==
    /\ server.up /\ client[k].state = "unused" /\ server.stamp < MaxStamp
    /\ client' = [j \in Clients |->
                    IF j = k THEN [state |-> "live", status |-> "none"]
                    ELSE IF j = server.client THEN [client[j] EXCEPT !.state = "revoked"]
                    ELSE client[j]]
    /\ server' = Touched(k)
    /\ tok' = IF conn = None THEN tok
              ELSE [tok EXCEPT ![conn] = Tombstone(conn, "pending", "rotated", None)]
    /\ conn' = None
    /\ UNCHANGED <<ops, attempt, actorGen, vendor, w, crashes>>

\* Rows remove_server takes over: everything active or still owed, except tokens an
\* administrator retired, which keep their own frozen context.
Removable(c) ==
    \/ tok[c].state = "active"
    \/ tok[c].status \in Owed /\ ~(tok[c].reason = "retired" /\ tok[c].frozen # None)

\* remove_server: freeze the client in every owed token, retain it for them or hand
\* it to the operator, and delete the server (its connections cascade).
RemoveServer ==
    LET usable == ClientUsable
        taken == {c \in Creds : Removable(c)}
        owner == IF usable THEN server.client ELSE None
        status == IF usable THEN "pending" ELSE "operator"
    IN /\ server.up /\ server.stamp < MaxStamp
       /\ \A c \in taken : ~Locked(c)
       /\ tok' = [c \in Creds |-> IF c \in taken THEN Tombstone(c, status, "removed", owner)
                                  ELSE tok[c]]
       /\ client' = IF server.client = None THEN client
                    ELSE [client EXCEPT ![server.client] =
                           [state |-> "revoked",
                            status |-> IF usable /\ taken # {} THEN "retained" ELSE "operator"]]
       /\ conn' = None
       /\ server' = [up |-> FALSE, client |-> None, stamp |-> server.stamp + 1]
       /\ UNCHANGED <<ops, attempt, actorGen, vendor, w, crashes>>

\* add_curated_server, add_custom_server: the same name again, without a client.
AddServer ==
    /\ ~server.up
    /\ server' = [server EXCEPT !.up = TRUE]
    /\ UNCHANGED <<client, tok, conn, ops, attempt, actorGen, vendor, w, crashes>>

\* A catalogue refresh, or saving the curated server again, rewrites the row.
TouchServer ==
    /\ server.up /\ server.stamp < MaxStamp
    /\ server' = Touched(server.client)
    /\ UNCHANGED <<client, tok, conn, ops, attempt, actorGen, vendor, w, crashes>>

\* credential_admin revoke of the OAuth client: its users' tokens are tombstoned with
\* the client frozen in them; the server keeps the pointer to the revoked client.
RetireClient ==
    /\ ClientUsable /\ server.stamp < MaxStamp
    /\ tok' = [c \in Creds |-> IF tok[c].state = "active"
                               THEN Tombstone(c, "pending", "retired", server.client) ELSE tok[c]]
    /\ conn' = None
    /\ client' = [client EXCEPT ![server.client] = [state |-> "revoked", status |-> "operator"]]
    /\ server' = Touched(server.client)
    /\ UNCHANGED <<ops, attempt, actorGen, vendor, w, crashes>>

\* credential_admin revoke of a user token.
RetireToken(c) ==
    /\ tok[c].state = "active"
    /\ tok' = [tok EXCEPT ![c] = IF ClientUsable
                                 THEN Tombstone(c, "pending", "retired", server.client)
                                 ELSE Tombstone(c, "operator", "retired", None)]
    /\ conn' = IF conn = c THEN None ELSE conn
    /\ UNCHANGED <<server, client, ops, attempt, actorGen, vendor, w, crashes>>

\* retire_connections_for: the person is removed.
RetirePerson ==
    /\ conn # None
    /\ tok' = [c \in Creds |-> IF tok[c].state = "active"
                               THEN Tombstone(c, "pending", "person", None) ELSE tok[c]]
    /\ conn' = None
    /\ UNCHANGED <<server, client, ops, attempt, actorGen, vendor, w, crashes>>

\* The person's sessions are invalidated.
RaiseGeneration ==
    /\ actorGen < MaxGen
    /\ actorGen' = actorGen + 1
    /\ UNCHANGED <<server, client, tok, conn, ops, attempt, vendor, w, crashes>>

(***************************************************************************)
(* Revocation at the vendor.                                               *)
(***************************************************************************)
\* 30 seconds for a pending row, 2 minutes for one some sweep claimed.
Ripen(c) ==
    /\ tok[c].status \in Owed /\ ~tok[c].ripe
    /\ tok' = [tok EXCEPT ![c].ripe = TRUE]
    /\ UNCHANGED <<server, client, conn, ops, attempt, actorGen, vendor, w, crashes>>

\* claim_pending_revocations, SKIP LOCKED.  A batch is a set of claims, each worked on
\* with the row as it was read here.
ClaimRevocation(x, c) ==
    /\ w[x].pc = "idle" /\ tok[c].state = "tombstone" /\ tok[c].status \in Owed
    /\ tok[c].ripe /\ ~Locked(c)
    /\ tok' = [tok EXCEPT ![c].status = "revoking", ![c].ripe = FALSE]
    /\ To(x, [Idle EXCEPT !.pc = "sweep", !.cred = c, !.token = tok[c].stored,
                          !.reason = tok[c].reason, !.frozen = tok[c].frozen,
                          !.sweeping = TRUE])
    /\ UNCHANGED <<server, client, conn, ops, attempt, actorGen, vendor, crashes>>

Contextual(x) == w[x].reason \in {"removed", "retired"}

\* reconcile_pending_revocations picks the client: the frozen one, or else whatever
\* client the server has now.
SweepMaterial(x) ==
    /\ w[x].pc = "sweep" /\ (Contextual(x) \/ ClientUsable)
    /\ To(x, [w[x] EXCEPT !.pc = "revoke",
                          !.client = IF Contextual(x) THEN w[x].frozen ELSE server.client])
    /\ UNCHANGED <<server, client, tok, conn, ops, attempt, actorGen, vendor, crashes>>

\* Without a usable client, or when a read fails, the row goes back.
SweepReturn(x) ==
    /\ w[x].pc = "sweep" /\ To(x, [w[x] EXCEPT !.pc = "return"])
    /\ UNCHANGED <<server, client, tok, conn, ops, attempt, actorGen, vendor, crashes>>

\* mark_revocation_operator_required: a frozen context that cannot be opened any more.
OperatorRequired(x) ==
    /\ w[x].pc = "sweep" /\ Contextual(x) /\ ~Locked(w[x].cred)
    /\ IF tok[w[x].cred].status = "revoking" /\ tok[w[x].cred].reason \in {"removed", "retired"}
       THEN /\ tok' = [tok EXCEPT ![w[x].cred].status = "operator", ![w[x].cred].ripe = FALSE]
            /\ client' = IF w[x].reason = "removed"
                         THEN [k \in Clients |-> IF client[k].status = "retained"
                                                 THEN [client[k] EXCEPT !.status = "operator"]
                                                 ELSE client[k]]
                         ELSE client
       ELSE UNCHANGED <<tok, client>>
    /\ End(x)
    /\ UNCHANGED <<server, conn, ops, attempt, actorGen, vendor, crashes>>

\* After a failed call the sweep returns the row; the immediate tries just stop.
NotRevoked(x) == IF w[x].sweeping THEN To(x, [w[x] EXCEPT !.pc = "return"]) ELSE End(x)

\* The vendor revokes a token for the client that owns it; a token it does not know
\* as live is answered with success too.
RevokeAnswered(x) ==
    /\ w[x].pc = "revoke"
    /\ w[x].token \in vendor.live => vendor.owner[w[x].token] = w[x].client
    /\ vendor' = [vendor EXCEPT !.live = @ \ {w[x].token}]
    /\ To(x, [w[x] EXCEPT !.pc = "mark"])
    /\ UNCHANGED <<server, client, tok, conn, ops, attempt, actorGen, crashes>>

\* It refuses, or the answer is lost after or before the revocation happened.
RevokeFailed(x) ==
    /\ w[x].pc = "revoke"
    /\ \/ UNCHANGED vendor
       \/ /\ vendor.owner[w[x].token] = w[x].client
          /\ vendor' = [vendor EXCEPT !.live = @ \ {w[x].token}]
    /\ NotRevoked(x)
    /\ UNCHANGED <<server, client, tok, conn, ops, attempt, actorGen, crashes>>

\* mark_vendor_revoked, first half: lock the owed row and look whether another token
\* still needs the frozen client (w.client keeps the client to release, if any).
MarkRevoked(x) ==
    LET c == w[x].cred
        needed == \E d \in Creds \ {c} : /\ tok[d].status \in Owed /\ tok[d].reason = "removed"
                                         /\ tok[d].frozen = tok[c].frozen
    IN /\ w[x].pc = "mark" /\ ~Locked(c)
       /\ IF tok[c].state = "tombstone" /\ tok[c].status \in Owed
          THEN To(x, [w[x] EXCEPT !.pc = "commit",
                        !.client = IF tok[c].reason = "removed" /\ ~needed
                                   THEN tok[c].frozen ELSE None])
          ELSE NotRevoked(x)
       /\ UNCHANGED <<server, client, tok, conn, ops, attempt, actorGen, vendor, crashes>>

\* mark_vendor_revoked commits: the row is final and its context scrubbed.
MarkCommit(x) ==
    /\ w[x].pc = "commit"
    /\ tok' = [tok EXCEPT ![w[x].cred].status = "revoked", ![w[x].cred].frozen = None,
                          ![w[x].cred].ripe = FALSE]
    /\ client' = IF w[x].client = None THEN client
                 ELSE [client EXCEPT ![w[x].client].status = "operator"]
    /\ End(x)
    /\ UNCHANGED <<server, conn, ops, attempt, actorGen, vendor, crashes>>

ReturnAnyPending(x) ==
    LET c == w[x].cred
    IN /\ w[x].pc = "return" /\ ~Locked(c)
       /\ tok' = [tok EXCEPT ![c].status = "pending", ![c].ripe = FALSE]
       /\ End(x)
       /\ UNCHANGED <<server, client, conn, ops, attempt, actorGen, vendor, crashes>>

\* return_revocation_pending: only a row that is still claimed.
ReturnPending(x) ==
    LET c == w[x].cred
    IN /\ w[x].pc = "return" /\ ~Locked(c)
       /\ tok' = IF tok[c].status = "revoking"
                 THEN [tok EXCEPT ![c].status = "pending", ![c].ripe = FALSE] ELSE tok
       /\ End(x)
       /\ UNCHANGED <<server, client, conn, ops, attempt, actorGen, vendor, crashes>>

(***************************************************************************)
(* The rotating refresh: fresh_user_access_token.                          *)
(***************************************************************************)
\* lock_binding: the person, server, client and token are exactly those prepared.
LockBinding(x) ==
    /\ server.up /\ conn = w[x].cred /\ server.client = w[x].client
    /\ server.stamp = w[x].stamp /\ client[w[x].client].state = "live"
    /\ tok[w[x].cred].state = "active" /\ tok[w[x].cred].stored = w[x].token
    /\ actorGen = w[x].gen

\* prepare_user_oauth_call: a snapshot without locks.
PrepareRefresh(x) ==
    /\ w[x].pc = "idle" /\ conn # None /\ ClientUsable /\ tok[conn].state = "active"
    /\ To(x, [Idle EXCEPT !.pc = "claim", !.cred = conn, !.token = tok[conn].stored,
                          !.client = server.client, !.gen = actorGen, !.stamp = server.stamp])
    /\ UNCHANGED <<server, client, tok, conn, ops, attempt, actorGen, vendor, crashes>>

ClaimOverUnresolved(x) ==
    LET c == w[x].cred
    IN /\ w[x].pc = "claim"
       /\ IF LockBinding(x)
          THEN /\ ops' = [ops EXCEPT ![c] = [state |-> "pending", admitted |-> FALSE]]
               /\ To(x, [w[x] EXCEPT !.pc = "admit"])
          ELSE End(x) /\ UNCHANGED ops
       /\ UNCHANGED <<server, client, tok, conn, attempt, actorGen, vendor, crashes>>

\* claim_refresh: one unresolved operation per token.
ClaimRefresh(x) ==
    LET c == w[x].cred
    IN /\ w[x].pc = "claim"
       /\ IF LockBinding(x) /\ ops[c].state \in {"none", "committed"}
          THEN /\ ops' = [ops EXCEPT ![c] = [state |-> "pending", admitted |-> FALSE]]
               /\ To(x, [w[x] EXCEPT !.pc = "admit"])
          ELSE End(x) /\ UNCHANGED ops
       /\ UNCHANGED <<server, client, tok, conn, attempt, actorGen, vendor, crashes>>

\* admit_refresh, immediately before the POST; a refusal leaves the operation pending.
AdmitRefresh(x) ==
    LET c == w[x].cred
    IN /\ w[x].pc = "admit"
       /\ IF LockBinding(x) /\ ops[c] = [state |-> "pending", admitted |-> FALSE]
          THEN /\ ops' = [ops EXCEPT ![c].admitted = TRUE]
               /\ To(x, [w[x] EXCEPT !.pc = "send"])
          ELSE End(x) /\ UNCHANGED ops
       /\ UNCHANGED <<server, client, tok, conn, attempt, actorGen, vendor, crashes>>

\* The token POST.  A live token is replaced (or, where allowed, kept) and the reply
\* may be lost; a dead one needs a new consent.
SendRefresh(x) ==
    LET t == w[x].token
        used == [vendor EXCEPT !.sent[t] = Again(@)]
        lost == [w[x] EXCEPT !.pc = "fail", !.failed = FALSE]
    IN /\ w[x].pc = "send"
       /\ IF t \in vendor.live /\ vendor.owner[t] = w[x].client
          THEN \/ /\ vendor.minted < MaxToken
                  /\ vendor' = [Minted(w[x].client) EXCEPT
                                  !.live = (@ \cup {vendor.minted + 1}) \ {t},
                                  !.sent[t] = Again(@)]
                  /\ \/ To(x, [w[x] EXCEPT !.pc = "finish", !.new = vendor'.minted])
                     \/ To(x, lost)
               \/ /\ vendor' = used
                  /\ To(x, IF Rotates THEN lost ELSE [w[x] EXCEPT !.pc = "finish", !.new = t])
          ELSE /\ vendor' = used
               /\ To(x, [w[x] EXCEPT !.pc = "fail", !.failed = TRUE])
       /\ UNCHANGED <<server, client, tok, conn, ops, attempt, actorGen, crashes>>

\* finish_refresh: the replacement is stored before the access token is released.
FinishRefresh(x) ==
    LET c == w[x].cred
    IN /\ w[x].pc = "finish"
       /\ IF LockBinding(x) /\ ops[c] = [state |-> "pending", admitted |-> TRUE]
          THEN /\ tok' = [tok EXCEPT ![c].stored = w[x].new]
               /\ ops' = [ops EXCEPT ![c].state = "committed"]
               /\ End(x)
          ELSE /\ To(x, [w[x] EXCEPT !.pc = "fail", !.failed = FALSE])
               /\ UNCHANGED <<tok, ops>>
       /\ UNCHANGED <<server, client, conn, attempt, actorGen, vendor, crashes>>

\* fail_refresh: the operation stays unresolved, and with it the token blocked.
FailRefresh(x) ==
    LET c == w[x].cred
    IN /\ w[x].pc = "fail"
       /\ ops' = IF ops[c] = [state |-> "pending", admitted |-> TRUE]
                 THEN [ops EXCEPT ![c].state = IF w[x].failed THEN "auth_required" ELSE "unknown"]
                 ELSE ops
       /\ End(x)
       /\ UNCHANGED <<server, client, tok, conn, attempt, actorGen, vendor, crashes>>

\* The process dies, a commit fails, or a database call does: whatever the request
\* held is gone, its open transaction is rolled back.
Crash(x) ==
    /\ w[x].pc # "idle" /\ crashes < MaxCrash
    /\ crashes' = crashes + 1 /\ End(x)
    /\ UNCHANGED <<server, client, tok, conn, ops, attempt, actorGen, vendor>>

Consent(x) ==
    \/ \E a \in Attempts : BeginOauth(x, a) \/ \E go \in BOOLEAN : Consume(x, a, go)
    \/ InsertAttempt(x) \/ CallbackLoad(x) \/ CallbackExchange(x)
    \/ (\E c \in Creds : Persist(x, c)) \/ PersistRefused(x)
Ending(x) == Disconnect(x) \/ TombstoneConnection(x) \/ DisconnectMaterial(x)
Revoking(x) ==
    \/ \E c \in Creds : ClaimRevocation(x, c)
    \/ SweepMaterial(x) \/ SweepReturn(x) \/ OperatorRequired(x) \/ RevokeAnswered(x) \/ RevokeFailed(x)
    \/ MarkRevoked(x) \/ MarkCommit(x) \/ ReturnPending(x)
Refreshing(x) ==
    \/ PrepareRefresh(x) \/ ClaimRefresh(x) \/ AdmitRefresh(x) \/ SendRefresh(x)
    \/ FinishRefresh(x) \/ FailRefresh(x)
Administration ==
    \/ \E k \in Clients : RegisterOauthClient(k)
    \/ RemoveServer \/ AddServer \/ TouchServer \/ RetireClient
    \/ \E c \in Creds : RetireToken(c)
    \/ RetirePerson \/ RaiseGeneration
Time == (\E a \in Attempts : Expire(a)) \/ (\E c \in Creds : Ripen(c))

Next ==
    \/ \E x \in Workers : Consent(x) \/ Ending(x) \/ Revoking(x) \/ Refreshing(x) \/ Crash(x)
    \/ Administration \/ Time

Spec == Init /\ [][Next]_vars

\* Steps that continue what a worker has begun.
Continue(x) ==
    \/ InsertAttempt(x) \/ CallbackLoad(x) \/ CallbackExchange(x)
    \/ (\E c \in Creds : Persist(x, c)) \/ PersistRefused(x)
    \/ TombstoneConnection(x) \/ DisconnectMaterial(x)
    \/ SweepMaterial(x) \/ SweepReturn(x) \/ RevokeAnswered(x) \/ RevokeFailed(x)
    \/ MarkRevoked(x) \/ MarkCommit(x) \/ ReturnPending(x)
    \/ ClaimRefresh(x) \/ AdmitRefresh(x) \/ SendRefresh(x) \/ FinishRefresh(x) \/ FailRefresh(x)

\* The supervisor ticks every 30 seconds and skips only locked rows, requests run to
\* their end, and a vendor and database that are asked again and again do answer.
\* A worker's claim, its material and the vendor's answer have strong fairness.
FairSteps == ({"ripen"} \X Creds) \cup ({"go_on"} \X Workers)
FairStep(f) == (f[1] = "ripen" /\ Ripen(f[2])) \/ (f[1] = "go_on" /\ Continue(f[2]))

(***************************************************************************)
(* Properties.                                                             *)
(***************************************************************************)
\* Every row and every request holds values of its type.
TypeOK ==
    /\ server \in [up : BOOLEAN, client : Clients \cup {None}, stamp : 0..MaxStamp]
    /\ client \in [Clients -> ClientRow]
    /\ tok \in [Creds -> TokenRow]
    /\ conn \in Creds \cup {None}
    /\ ops \in [Creds -> Op]
    /\ attempt \in [Attempts -> Attempt]
    /\ actorGen \in 0..MaxGen
    /\ vendor.minted \in 0..MaxToken /\ vendor.live \subseteq 1..vendor.minted
    /\ w \in [Workers -> Worker]
    /\ crashes \in 0..MaxCrash

\* A consent is redeemed at most once, however many callbacks arrive with its state
\* and however they interleave (complete_inner burns the state first).
ConsentRedeemedOnce == \A a \in Attempts : vendor.redeemed[a] <= 1

\* The connection in use was granted to the client the server has now: a consent that
\* was being exchanged while the client was replaced never becomes a connection.
ConnectionIsCurrent ==
    conn # None => /\ server.up /\ tok[conn].state = "active"
                   /\ vendor.owner[tok[conn].stored] = server.client

\* "Local deny is final": once ended, a token is never connected again and its stored
\* value never changes, whatever refresh or callback was in flight.
LocalDenyIsFinal ==
    [][\A c \in Creds : tok[c].state = "tombstone" =>
          /\ tok'[c].state = "tombstone" /\ tok'[c].stored = tok[c].stored
          /\ conn' # c]_vars

\* No refresh token is posted twice: neither two requests at once, nor a retry after a
\* lost reply or a crash (an unresolved operation blocks the credential).
RefreshSentOnce == \A t \in Tokens : vendor.sent[t] <= 1

\* A connection that is not blocked by an unresolved refresh holds a token the vendor
\* still accepts: the replacement is durable before anyone goes on.
UnblockedIsLive ==
    conn # None /\ ops[conn].state \in {"none", "committed"} => tok[conn].stored \in vendor.live

\* A sweep reports as revoked the very token its row stores, and only once that token
\* is dead at the vendor: nothing changes a row between its claim and the report.
SweepConfirmsStored ==
    \A x \in Workers : w[x].sweeping /\ w[x].pc \in {"mark", "commit"} =>
        tok[w[x].cred].stored \notin vendor.live

\* A settled revocation is never reopened or rewritten, by a sweep whose claim went
\* stale or by a later removal of the server.
SettledIsFinal ==
    [][\A c \in Creds : tok[c].status \in {"revoked", "operator"} =>
          tok'[c].status = tok[c].status]_vars

\* A token an administrator retired is revoked with the client it was granted to, even
\* after the server got another client or was removed.
RetiredKeepsItsClient ==
    \A x \in Workers : w[x].pc = "revoke" /\ w[x].sweeping /\ w[x].reason = "retired" =>
        vendor.owner[w[x].token] = w[x].client

\* An owed revocation is settled, unless the server is left without a usable client.
OwedIsSettled ==
    \A c \in Creds : []<>(tok[c].status \notin Owed \/ ~ClientUsable)
=============================================================================

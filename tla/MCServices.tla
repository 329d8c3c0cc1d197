----------------------------- MODULE MCServices -----------------------------
(* The server's dealings with other parties: the journal and the rotation of *)
(* the gateway, the connections to MCP servers, and people who sign in. They *)
(* share no variable: a behaviour exercises the component that part names    *)
(* (see MCTools). The three whose properties are also proved are extended,   *)
(* the MCP connections instantiated. The journal has one revocation of the   *)
(* actor and one broken connection, the rotation two operations, one of      *)
(* which sends requests while it rotates, two sessions and one fault.        *)
EXTENDS GatewayRotation, GatewayJournal, SignIn, TLC

VARIABLES
    part,       \* the component that moves
    server, client, tok, mcpConn, ops, attempt, actorGen, vendor, w, crashes

mcpVars == <<server, client, tok, mcpConn, ops, attempt, actorGen, vendor, w, crashes>>
serviceVars == <<part, vars, journalVars, mcpVars, signInVars>>

-----------------------------------------------------------------------------
(* One person, two workers, a client that is replaced and a request that     *)
(* dies; or a second consent that replaces the connection of the first.      *)

Mcp == INSTANCE McpConnections WITH
    conn <- mcpConn, None <- Nil,
    Creds <- {"c1", "c2"}, Clients <- {"k1", "k2"}, Attempts <- {"t1", "t2"}, Workers <- {"w1", "w2"},
    Capacity <- 1, MaxToken <- 3, MaxStamp <- 1, MaxGen <- 0, MaxCrash <- 1,
    FirstClient <- "k1", Rotates <- TRUE

(* People sign in to a database with two administrators, whose addresses are *)
(* not on the floor and either of whom may come to report the configured     *)
(* administrator's address; or to an empty database, with a package channel  *)
(* whose audience is spelt in two ways, a private channel and a provider an  *)
(* administrator registers. The provider of the deployment owns all          *)
(* addresses.                                                                *)

DeploymentConfig == [issuer |-> "i1", domains |-> {"e1", "e2", "e3"}]

TwoAdmins ==
    [users |-> "u1" :> [email |-> "e3", role |-> "admin", gen |-> 0, groups |-> {}] @@
               "u2" :> [email |-> "e2", role |-> "admin", gen |-> 0, groups |-> {}],
     accounts |-> {[provider |-> "google", subject |-> "s1", user |-> "u1", issuer |-> "i1"],
                   [provider |-> "google", subject |-> "s2", user |-> "u2", issuer |-> "i1"]}]
Nobody == [users |-> "u1" :> Nil @@ "u2" :> Nil, accounts |-> {}]

FoundDatabases == {TwoAdmins, Nobody}
AllConfigs == {DeploymentConfig}
TheVouched == {<<"s1", "e3">>, <<"s1", "e1">>, <<"s1", "e2">>,
               <<"s2", "e2">>, <<"s2", "e1">>, <<"s2", "e3">>}
TheFold == "risk" :> "risk" @@ "Risk" :> "risk"
TheAudiences == {[everyone |-> TRUE, named |-> {}], [everyone |-> FALSE, named |-> {"risk"}],
                 [everyone |-> FALSE, named |-> {"Risk"}]}

ASSUME
    /\ BoundsAssumption
    /\ RotationAssumption
    /\ Mcp!BoundsAreNaturals
    /\ SignInAssumption

\* Identities of one kind differ only in name: they are used in their order.
InOrder(ids, Used(_)) == \A k \in 2..Len(ids) : Used(ids[k]) => Used(ids[k - 1])

SignInsInOrder ==
    /\ InOrder(<<"a1", "a2", "a3">>, LAMBDA a : attempts'[a].phase # "none")
    /\ InOrder(<<"c1", "c2", "c3">>, LAMBDA c : cb'[c].pc # "idle")
    /\ InOrder(<<"r1", "r2">>, LAMBDA r : req'[r].pc # "idle")

\* Two administrators meet two callbacks, at fixed channels and providers.
OnlyPeople ==
    /\ SignInsInOrder /\ cb'["c3"].pc = "idle"
    /\ UNCHANGED <<registry, audience, private, syncs>>
    /\ \A c \in Callbacks : cb'[c].identity # Nil =>
          cb'[c].identity.groups = {} /\ <<cb'[c].identity.subject, cb'[c].identity.email>> # <<"s1", "e2">>
    /\ \A a \in Attempts : attempts'[a].provider \in {Nil, "google"}

\* With channels and providers one subject uses two attempts.
OnlyChannels ==
    /\ SignInsInOrder /\ cb'["c3"].pc = "idle" /\ attempts'["a3"].phase = "none"
    /\ \A c \in Callbacks : cb'[c].identity # Nil =>
          cb'[c].identity.subject = "s1" /\ cb'[c].identity.email # "e3"
    /\ \A u \in Users : users'[u] # Nil => users'[u].gen <= 2

\* One consent, one row and two tokens, while the server and its client change.
OneConsent ==
    /\ attempt'["t2"].state = "unused" /\ \A x \in {"w1", "w2"} : w'[x].att # "t2"
    /\ tok'["c2"].state = "unused" /\ vendor'.minted <= 2

\* A second consent replaces the first connection, at a server that stays as it is;
\* one worker asks for consents, the other refreshes, disconnects and sweeps.
Reconnecting ==
    /\ UNCHANGED <<server, client>> /\ crashes' = 0
    /\ ~w'["w1"].sweeping /\ w'["w1"].pc \notin {"tombstone", "claim"} /\ w'["w2"].att = Nil
    /\ \A a \in {"t1", "t2"} : attempt'[a].state # "expired"
    /\ \A c \in {"c1", "c2"} : tok'[c].reason \notin {"retired", "person"}
    /\ tok'["c2"].state # "unused" => tok'["c1"].state # "unused"
    /\ attempt'["t2"].state # "unused" => tok'["c1"].state # "unused"

\* The operations begin when the enrollment is over, and a session breaks between two
\* operations that are neither revoked nor send requests of their own.
OneMisfortune ==
    /\ en'.pc \notin {"receipt", "failed"} =>
         faults' = 0 /\ op'["o1"].pc = "idle" /\ op'["o2"].pc = "idle"
    /\ faults' > 0 => actor' /\ cat'["o1"].pc = "idle" /\ cat'["o2"].pc = "idle"

-----------------------------------------------------------------------------

Parts == {"journal", "rotation", "mcp", "reconnect", "people", "channels"}

ServicesInit ==
    /\ part \in Parts
    /\ JournalInit
    /\ Init
    /\ Mcp!Init
    /\ SignInInit
    /\ part = "channels" <=> users["u1"] = Nil
    /\ part # "channels" => audience["home"] = [everyone |-> FALSE, named |-> {"risk"}]

\* The components that do not move.
Frame(p) ==
    /\ UNCHANGED part
    /\ IF p = "journal" THEN TRUE ELSE UNCHANGED journalVars
    /\ IF p = "rotation" THEN TRUE ELSE UNCHANGED vars
    /\ IF p \in {"mcp", "reconnect"} THEN TRUE ELSE UNCHANGED mcpVars
    /\ IF p \in {"people", "channels"} THEN TRUE ELSE UNCHANGED signInVars

ServicesNext ==
    \/ part = "journal" /\ JournalNext /\ Frame("journal")
    \/ part = "rotation" /\ Next /\ Frame("rotation")
       /\ OneMisfortune
    \/ part = "mcp" /\ Mcp!Next /\ Frame("mcp")
       /\ OneConsent
    \/ part = "reconnect" /\ Mcp!Next /\ Frame("reconnect")
       /\ Reconnecting
    \/ part = "people" /\ SignInNext /\ Frame("people")
       /\ OnlyPeople
    \/ part = "channels" /\ SignInNext /\ Frame("channels")
       /\ OnlyChannels

ServicesSpec == ServicesInit /\ [][ServicesNext]_serviceVars

-----------------------------------------------------------------------------
\* ConsentRedeemedOnce: A consent is redeemed at most once, however many callbacks
\*   arrive with its state.
\* SweepConfirmsStored: A sweep reports as revoked the very token its row stores,
\*   and only once that token is dead at the vendor.
\* ConnectionIsCurrent: A consent that was being exchanged while the client was
\*   replaced never becomes a connection.
\* RefreshSentOnce: No refresh token is posted twice, by two requests at once or by
\*   a retry after a lost reply or a crash.
\* UnblockedIsLive: A connection that is not blocked by an unresolved refresh holds
\*   a token the vendor still accepts.
\* RetiredKeepsItsClient: A token an administrator retired is revoked with the
\*   client it was granted to, even after the server got another one.
McpSafety ==
    /\ part \in {"mcp", "reconnect"} =>
         /\ Mcp!TypeOK
         /\ Mcp!ConsentRedeemedOnce
         /\ Mcp!SweepConfirmsStored
         /\ Mcp!ConnectionIsCurrent
         /\ Mcp!RefreshSentOnce
         /\ Mcp!UnblockedIsLive
         /\ Mcp!RetiredKeepsItsClient

\* SendIsFenced: When a request is handed to the dialer its fence holds the actor
\*   and the attempt row; only a connection that broke under the fence can void
\*   that.
\* WritesAreAuthorized: The row and the adopted connection never change once the
\*   actor was revoked, not even by a commit whose owner has given up.
\* LocalDenyIsFinal: Once ended, a token is never connected again and its stored
\*   value never changes, whatever was in flight.
\* SettledIsFinal: A settled revocation is never reopened, by a sweep whose claim
\*   went stale or by a removal of the server.
\* DeadNeverRevives: A session that resolve_token refuses is never accepted again,
\*   whatever is restored or changed back.
\* SignInYieldsUsable: A sign-in that succeeds hands out a session the next request
\*   can use.
\* AdminRemains: Whatever administrators do to each other at the same time, an
\*   effective administrator remains once there is one.
\* SignInFollowsAnchor: A sign-in is that of the person its subject is anchored to,
\*   whatever address the provider reports now.
ServiceSteps ==
    /\ SendIsFenced
    /\ WritesAreAuthorized
    /\ Mcp!LocalDenyIsFinal
    /\ Mcp!SettledIsFinal
    /\ DeadNeverRevives
    /\ SignInYieldsUsable
    /\ AdminRemains
    /\ SignInFollowsAnchor
=============================================================================

------------------------------- MODULE SignIn -------------------------------
(***************************************************************************)
(* People, roles, identity providers and browser sessions of the server.   *)
(* A sign-in starts an attempt, is called back by the identity provider,   *)
(* burns the attempt, loads the provider, verifies the identity and issues *)
(* a session in one transaction (auth/oidc, auth/sso).  Administrators     *)
(* change roles, access and providers; anybody signed in may create a      *)
(* channel; a starting replica synchronizes the tenant package.  Each      *)
(* transaction is one action: lock_people and row locks serialize them.    *)
(* What a request read before its transaction stays in the request.        *)
(***************************************************************************)
EXTENDS Naturals, FiniteSets

CONSTANTS
    Users,            \* ids of public.users
    Subjects,         \* subjects the identity providers vouch for
    Emails,           \* normalized addresses
    Vouched,          \* subject and address pairs the providers report
    Floor,            \* INITIAL_ADMIN_EMAILS
    Databases,        \* [users, accounts] the server may start with
    StaticProviders,  \* providers of the deployment's configuration
    DynamicProviders, \* provider ids an administrator may register
    Configs,          \* [issuer, domains] a provider may have
    StaticConfig,     \* the configuration of the static providers
    Groups,           \* normalized group names
    RawGroups,        \* group names as a package spells them
    Fold,             \* [RawGroups -> Groups], the provider's normalization
    Audiences,        \* [everyone, named] a package may give a channel
    PackageChannels,  \* channels of the tenant package
    PrivateChannels,  \* ids of channels people may create
    Attempts,         \* login attempts (states)
    Callbacks,        \* callback requests
    WebRequests,      \* authenticated requests
    Capacity,         \* open attempts the store accepts
    MaxAuthGen,       \* bound on auth_generation
    MaxSyncs,         \* bound on package synchronizations
    Nil              \* no value

Providers == StaticProviders \cup DynamicProviders
Channels == PackageChannels \cup PrivateChannels

\* public.users and public.accounts as their types and unique indexes keep them.
Records == [email : Emails, role : {"admin", "user"}, gen : 0..MaxAuthGen, groups : SUBSET Groups]
Links == [provider : Providers, subject : Subjects, user : Users, issuer : {c.issuer : c \in Configs}]

Unique(us, links) ==
    /\ \A u, v \in Users : us[u] # Nil /\ us[v] # Nil /\ us[u].email = us[v].email => u = v
    /\ \A a, b \in links : a.provider = b.provider /\ a.subject = b.subject => a = b
    /\ \A a \in links : us[a.user] # Nil

SignInAssumption ==
    /\ IsFiniteSet(Users) /\ IsFiniteSet(Attempts)
    /\ PackageChannels \cap PrivateChannels = {}
    /\ Nil \notin Attempts /\ Nil \notin Configs /\ Nil \notin Records
    /\ \A d \in Databases :
          d.users \in [Users -> Records \cup {Nil}] /\ d.accounts \subseteq Links
          /\ Unique(d.users, d.accounts)
    /\ Floor \subseteq Emails /\ Vouched \subseteq Subjects \X Emails /\ StaticConfig \in Configs
    /\ Fold \in [RawGroups -> Groups] /\ Groups \subseteq RawGroups
    /\ \A g \in Groups : Fold[g] = g
    /\ Capacity \in Nat \ {0} /\ MaxAuthGen \in Nat /\ MaxSyncs \in Nat

VARIABLES
    users,     \* [Users -> Nil or [email, role, gen, groups]]
    denied,    \* public.revoked_access
    removed,   \* history: people revoked and not restored since
    accounts,  \* public.accounts: [provider, subject, user, issuer]
    sessions,  \* public.sessions: [user, gen, via]
    registry,  \* public.sso_providers
    audience,  \* allowed_groups of the package channels
    private,   \* channels people created
    members,   \* public.channel_memberships
    creds,     \* owners of a live personal credential
    attempts,  \* [Attempts -> [phase, provider]]
    cb,        \* [Callbacks -> [pc, attempt, config, identity]]
    req,       \* [WebRequests -> [pc, actor, gen, admin, session]]
    syncs

signInVars == <<users, denied, removed, accounts, sessions, registry, audience,
                private, members, creds, attempts, cb, req, syncs>>
people == <<users, denied, removed>>

Identities == {id \in [subject : Subjects, email : Emails, groups : SUBSET Groups] :
                  <<id.subject, id.email>> \in Vouched}
NoCallback == [pc |-> "idle", attempt |-> Nil, config |-> Nil, identity |-> Nil]
NoRequest == [pc |-> "idle", actor |-> Nil, gen |-> 0, admin |-> FALSE, session |-> Nil]

Person(u) == users[u] # Nil
EffectiveAdmin(u) == Person(u) /\ users[u].role = "admin" /\ users[u].email \notin denied

\* what resolve_token accepts: the row exists, its owner is not on the deny list
\* and the generation it was minted with is the owner's
Resolves(s) == users[s.user].email \notin denied /\ s.gen = users[s.user].gen

SignInInit ==
    /\ \E d \in Databases : users = d.users /\ accounts = d.accounts
    /\ denied = {} /\ removed = {} /\ sessions = {}
    /\ registry = [p \in DynamicProviders |-> Nil]
    /\ audience \in [PackageChannels -> Audiences]
    /\ private = {} /\ members = {} /\ creds = {}
    /\ attempts = [a \in Attempts |-> [phase |-> "none", provider |-> Nil]]
    /\ cb = [c \in Callbacks |-> NoCallback]
    /\ req = [r \in WebRequests |-> NoRequest]
    /\ syncs = 0

-----------------------------------------------------------------------------
(* Attempts and callbacks *)

ConfigOf(p) == IF p \in StaticProviders THEN StaticConfig ELSE registry[p]

\* OidcLoginCoordinator::start and PostgresAttemptStore::insert: expired attempts
\* are purged, then the capacity is checked
start(a, p) ==
    LET kept == [b \in Attempts |->
                    IF attempts[b].phase = "expired"
                    THEN [attempts[b] EXCEPT !.phase = "gone"] ELSE attempts[b]]
    IN
    /\ attempts[a].phase = "none"
    /\ ConfigOf(p) # Nil
    /\ Cardinality({b \in Attempts : kept[b].phase = "open"}) < Capacity
    /\ attempts' = [kept EXCEPT ![a] = [phase |-> "open", provider |-> p]]
    /\ UNCHANGED <<people, accounts, sessions, registry, audience, private, members, creds, cb, req, syncs>>

expire(a) ==
    /\ attempts[a].phase = "open"
    /\ attempts' = [attempts EXCEPT ![a].phase = "expired"]
    /\ UNCHANGED <<people, accounts, sessions, registry, audience, private, members, creds, cb, req, syncs>>

\* PostgresAttemptStore::consume deletes the row and commits before it looks at it
ConsumedRow(a) == [attempts EXCEPT ![a].phase = "gone"]

\* begin_callback: the state is burnt first, whatever becomes of the callback
begin_callback(c, a) ==
    /\ cb[c].pc = "idle"
    /\ attempts[a].phase \in {"open", "expired"}
    /\ attempts' = ConsumedRow(a)
    /\ cb' = [cb EXCEPT ![c] =
                [@ EXCEPT !.pc = IF attempts[a].phase = "open" THEN "burnt" ELSE "failed",
                          !.attempt = IF attempts[a].phase = "open" THEN a ELSE Nil]]
    /\ UNCHANGED <<people, accounts, sessions, registry, audience, private, members, creds, req, syncs>>

\* load_oidc_runtime, or the static provider's runtime held in memory
load_runtime(c) ==
    LET p == attempts[cb[c].attempt].provider IN
    /\ cb[c].pc = "burnt"
    /\ cb' = [cb EXCEPT ![c] =
                IF ConfigOf(p) = Nil THEN [@ EXCEPT !.pc = "failed"]
                ELSE [@ EXCEPT !.pc = "loaded", !.config = ConfigOf(p)]]
    /\ UNCHANGED <<people, accounts, sessions, registry, audience, private, members, creds, attempts, req, syncs>>

\* finish_callback up to the session: the provider exchanges the code and vouches
\* for an identity under the loaded issuer
verify(c, id) ==
    /\ cb[c].pc = "loaded"
    /\ cb' = [cb EXCEPT ![c].pc = "verified", ![c].identity = id]
    /\ UNCHANGED <<people, accounts, sessions, registry, audience, private, members, creds, attempts, req, syncs>>

CallbackEnds(c, how) ==
    cb' = [cb EXCEPT ![c] = [NoCallback EXCEPT !.pc = how, !.attempt = cb[c].attempt]]

\* an error of the provider, the network or the database, or a crash
abandon(c) ==
    /\ cb[c].pc \in {"burnt", "loaded", "verified"}
    /\ CallbackEnds(c, "failed")
    /\ UNCHANGED <<people, accounts, sessions, registry, audience, private, members, creds, attempts, req, syncs>>

-----------------------------------------------------------------------------
(* issue_federated *)

Anchors(p, sub) == {a \in accounts : a.provider = p /\ a.subject = sub}
HoldersOf(mail) == {u \in Users : Person(u) /\ users[u].email = mail}

\* the account's person, else the person at the address, else a new one
Candidates(p, id) ==
    IF Anchors(p, id.subject) # {} THEN {a.user : a \in Anchors(p, id.subject)}
    ELSE IF HoldersOf(id.email) # {} THEN HoldersOf(id.email)
    ELSE {u \in Users : ~Person(u)}

\* the provider does not own the address's domain, the anchor was made under
\* another issuer, or the new address belongs to somebody else
Conflict(p, config, id, u) ==
    \/ p \in DynamicProviders /\ id.email \notin config.domains
    \/ \E a \in Anchors(p, id.subject) : a.issuer # config.issuer
    \/ Person(u) /\ HoldersOf(id.email) \ {u} # {}

StoredMail(id, u) == IF Person(u) THEN users[u].email ELSE id.email

DeniedIncomingOnly(id, u) == id.email \in denied

\* the deny list is asked for the incoming and for the stored address
Denied(id, u) == id.email \in denied \/ StoredMail(id, u) \in denied

\* seed_role for a new person, apply_admin_floor for one who returns
RoleAtSignIn(id, u) ==
    IF id.email \in Floor THEN "admin"
    ELSE IF Person(u) THEN users[u].role ELSE "user"

\* load_channel_audiences parses every channel's allowed_groups; a channel made by
\* create_channel has an empty list, which ChannelAudience::parse rejects
AudiencesParse == private = {}

Entitled(groups, ch) ==
    audience[ch].everyone \/ \E raw \in audience[ch].named : Fold[raw] \in groups

Projected(id) == {ch \in PackageChannels : Entitled(id.groups, ch)}

MemberOf(u) == {ch \in Channels : <<u, ch>> \in members}

GenBefore(u) == IF Person(u) THEN users[u].gen ELSE 0

\* advance_generation when the sign-in itself changed what the person may do
GenAfter(u, changed) == IF changed THEN GenBefore(u) + 1 ELSE GenBefore(u)

\* authenticate: the generation the session is minted with is read back after it
MintedGen(u, changed) == GenAfter(u, changed)

\* project_membership, diff and settle
SettledMembership(u, id) ==
    {m \in members : m[1] # u} \cup ({u} \X Projected(id))

issued(c, u) ==
    LET id == cb[c].identity
        p == attempts[cb[c].attempt].provider
        moved == Person(u) /\ users[u].email # id.email
        granted == Person(u) /\ RoleAtSignIn(id, u) # users[u].role
        revoked == MemberOf(u) \ Projected(id) # {}
        changed == moved \/ granted \/ revoked
        gen == GenAfter(u, changed)
    IN
    /\ gen <= MaxAuthGen
    /\ users' = [users EXCEPT ![u] =
                    [email |-> id.email, role |-> RoleAtSignIn(id, u), gen |-> gen, groups |-> id.groups]]
    /\ accounts' = IF Anchors(p, id.subject) # {} THEN accounts
                   ELSE accounts \cup {[provider |-> p, subject |-> id.subject, user |-> u,
                                        issuer |-> cb[c].config.issuer]}
    /\ members' = SettledMembership(u, id)
    /\ sessions' = {s \in sessions : ~(changed /\ s.user = u)}
                   \cup {[user |-> u, gen |-> MintedGen(u, changed), via |-> cb[c].attempt]}
    /\ CallbackEnds(c, "signed_in")
    /\ UNCHANGED <<denied, removed>>

\* one transaction under lock_people; every error rolls it back
issue_federated(c) ==
    /\ cb[c].pc = "verified"
    /\ LET id == cb[c].identity
           p == attempts[cb[c].attempt].provider IN
       \E u \in Candidates(p, id) :
          IF Conflict(p, cb[c].config, id, u) \/ Denied(id, u)
          THEN CallbackEnds(c, "failed") /\ UNCHANGED <<people, accounts, sessions, members>>
          ELSE IF ~AudiencesParse
          THEN CallbackEnds(c, "corrupt") /\ UNCHANGED <<people, accounts, sessions, members>>
          ELSE issued(c, u)
    /\ UNCHANGED <<registry, audience, private, creds, attempts, req, syncs>>

-----------------------------------------------------------------------------
(* Authenticated requests *)

\* resolve_token: the context keeps the actor, the generation and the role it read
resolve(r, s) ==
    /\ req[r].pc = "idle"
    /\ Resolves(s)
    /\ req' = [req EXCEPT ![r] =
                [pc |-> "resolved", actor |-> s.user, gen |-> s.gen,
                 admin |-> users[s.user].role = "admin", session |-> s.via]]
    /\ UNCHANGED <<people, accounts, sessions, registry, audience, private, members, creds, attempts, cb, syncs>>

Reply(r) == req' = [req EXCEPT ![r] = [NoRequest EXCEPT !.pc = "done"]]

\* the request is refused, the client goes away, the database fails or the process
\* dies; whom a request still had to retire is kept as a fact of the history
die(r) ==
    /\ req[r].pc \in {"resolved", "retire"}
    /\ req' = [req EXCEPT ![r] =
                [NoRequest EXCEPT !.pc = "died", !.actor = IF req[r].pc = "retire" THEN req[r].actor ELSE Nil]]
    /\ UNCHANGED <<people, accounts, sessions, registry, audience, private, members, creds, attempts, cb, syncs>>

OtherAdmins(subject) == Cardinality({u \in Users \ {subject} : EffectiveAdmin(u)})

\* authorize_role_change: nobody demotes a configured administrator, themselves
\* or the last one
RoleChangeRefused(by, subject, desired) ==
    /\ users[subject].role = "admin" /\ desired # "admin"
    /\ \/ users[subject].email \in Floor
       \/ by = subject
       \/ OtherAdmins(subject) = 0

\* change_role under lock_people.  The actor's own role was read by resolve_token
\* and is not read again.
change_role(r, subject, desired) ==
    LET before == users[subject] IN
    /\ req[r].pc = "resolved" /\ req[r].admin /\ Person(subject)
    /\ IF RoleChangeRefused(req[r].actor, subject, desired) \/ before.role = desired
       THEN UNCHANGED users
       ELSE /\ before.gen < MaxAuthGen
            /\ users' = [users EXCEPT ![subject].role = desired, ![subject].gen = @ + 1]
    /\ Reply(r)
    /\ UNCHANGED <<denied, removed, accounts, sessions, registry, audience, private, members, creds, attempts, cb, syncs>>

\* TerminateSessions and AdvanceAuthGeneration of the revocation plan
Revoked(subject) ==
    /\ users[subject].gen < MaxAuthGen
    /\ users' = [users EXCEPT ![subject].gen = @ + 1]
    /\ sessions' = {s \in sessions : s.user # subject}

\* change_access goes on to the owner's credentials after its commit
RetireNext(r, subject) ==
    req' = [req EXCEPT ![r] = [NoRequest EXCEPT !.pc = "retire", !.actor = subject]]

\* authorize_access_change: the same three people cannot be removed
AccessChangeRefused(by, subject) ==
    \/ users[subject].email \in Floor
    \/ by = subject
    \/ users[subject].role = "admin" /\ OtherAdmins(subject) = 0

\* change_access with revoked = TRUE
revoke_access(r, subject) ==
    LET before == users[subject]
        refused == AccessChangeRefused(req[r].actor, subject)
    IN
    /\ req[r].pc = "resolved" /\ req[r].admin /\ Person(subject)
    /\ \/ refused /\ Reply(r) /\ UNCHANGED <<people, sessions>>
       \/ /\ ~refused /\ before.email \in denied
          /\ RetireNext(r, subject)
          /\ UNCHANGED <<people, sessions>>
       \/ /\ ~refused /\ before.email \notin denied
          /\ denied' = denied \cup {before.email}
          /\ removed' = removed \cup {subject}
          /\ Revoked(subject)
          /\ RetireNext(r, subject)
    /\ UNCHANGED <<accounts, registry, audience, private, members, creds, attempts, cb, syncs>>

\* change_access with revoked = FALSE
restore_access(r, subject) ==
    /\ req[r].pc = "resolved" /\ req[r].admin /\ Person(subject)
    /\ denied' = denied \ {users[subject].email}
    /\ removed' = removed \ {subject}
    /\ Reply(r)
    /\ UNCHANGED <<users, accounts, sessions, registry, audience, private, members, creds, attempts, cb, syncs>>

\* retire_owned_credentials: a transaction of its own, without lock_people
retire_owned_credentials(r) ==
    /\ req[r].pc = "retire"
    /\ creds' = creds \ {req[r].actor}
    /\ Reply(r)
    /\ UNCHANGED <<people, accounts, sessions, registry, audience, private, members, attempts, cb, syncs>>

\* persist_connection: a person connects an account, if the generation and the deny
\* list still allow it
connect(r) ==
    /\ req[r].pc = "resolved"
    /\ users[req[r].actor].gen = req[r].gen /\ users[req[r].actor].email \notin denied
    /\ creds' = creds \cup {req[r].actor}
    /\ Reply(r)
    /\ UNCHANGED <<people, accounts, sessions, registry, audience, private, members, attempts, cb, syncs>>

\* revoke_session: sign-out
revoke_session(r) ==
    /\ req[r].pc = "resolved"
    /\ sessions' = {s \in sessions : ~(s.via = req[r].session /\ s.user = req[r].actor)}
    /\ Reply(r)
    /\ UNCHANGED <<people, accounts, registry, audience, private, members, creds, attempts, cb, syncs>>

\* create_channel asks current_native_actor again inside its transaction
create_channel(r, ch) ==
    LET u == req[r].actor
        current == /\ users[u].gen = req[r].gen /\ users[u].email \notin denied
                   /\ (users[u].role = "admin") = req[r].admin
    IN
    /\ req[r].pc = "resolved" /\ ch \notin private
    /\ private' = IF current THEN private \cup {ch} ELSE private
    /\ members' = IF current THEN members \cup {<<u, ch>>} ELSE members
    /\ Reply(r)
    /\ UNCHANGED <<people, accounts, sessions, registry, audience, creds, attempts, cb, syncs>>

-----------------------------------------------------------------------------
(* Identity providers and the tenant package *)

LinkedTo(p) == {a.user : a \in {b \in accounts : b.provider = p}}

\* revoke_linked_accounts: generations advance, sessions and anchors go
LinksRevoked(p) ==
    /\ \A u \in LinkedTo(p) : users[u].gen < MaxAuthGen
    /\ users' = [u \in Users |-> IF u \in LinkedTo(p) THEN [users[u] EXCEPT !.gen = @ + 1] ELSE users[u]]
    /\ sessions' = {s \in sessions : s.user \notin LinkedTo(p)}
    /\ accounts' = {a \in accounts : a.provider # p}

\* assert_domains_available
DomainsFree(p, config) ==
    \A q \in DynamicProviders \ {p} : registry[q] # Nil => registry[q].domains \cap config.domains = {}

\* register an unknown id, or update a known one
write_provider(r, p, config) ==
    /\ req[r].pc = "resolved" /\ req[r].admin
    /\ DomainsFree(p, config)
    /\ IF registry[p] = Nil THEN UNCHANGED <<users, sessions, accounts>> ELSE LinksRevoked(p)
    /\ registry' = [registry EXCEPT ![p] = config]
    /\ Reply(r)
    /\ UNCHANGED <<denied, removed, audience, private, members, creds, attempts, cb, syncs>>

remove_provider(r, p) ==
    /\ req[r].pc = "resolved" /\ req[r].admin
    /\ registry[p] # Nil
    /\ LinksRevoked(p)
    /\ registry' = [registry EXCEPT ![p] = Nil]
    /\ Reply(r)
    /\ UNCHANGED <<denied, removed, audience, private, members, creds, attempts, cb, syncs>>

\* reconcile_memberships matches the stored groups literally: it does not know
\* which provider's normalization produced them
Literal(u, aud, ch) == aud[ch].everyone \/ aud[ch].named \cap users[u].groups # {}

Desired(aud) ==
    {m \in Users \X PackageChannels :
        Person(m[1]) /\ users[m[1]].email \notin denied /\ Literal(m[1], aud, m[2])}

Reconciled(aud) == {m \in members : m[2] \in PrivateChannels} \cup Desired(aud)

\* synchronize: a replica starts with a package that may give other audiences
synchronize(aud) ==
    LET lost == {m[1] : m \in members \ Reconciled(aud)} IN
    /\ syncs < MaxSyncs /\ aud # audience
    /\ \A u \in lost : users[u].gen < MaxAuthGen
    /\ audience' = aud
    /\ members' = Reconciled(aud)
    /\ users' = [u \in Users |-> IF u \in lost THEN [users[u] EXCEPT !.gen = @ + 1] ELSE users[u]]
    /\ sessions' = {s \in sessions : s.user \notin lost}
    /\ syncs' = syncs + 1
    /\ UNCHANGED <<denied, removed, accounts, registry, private, creds, attempts, cb, req>>

-----------------------------------------------------------------------------

SignInNext ==
    \/ \E a \in Attempts : expire(a) \/ \E p \in Providers : start(a, p)
    \/ \E c \in Callbacks :
          \/ \E a \in Attempts : begin_callback(c, a)
          \/ load_runtime(c)
          \/ \E id \in Identities : verify(c, id)
          \/ abandon(c)
          \/ issue_federated(c)
    \/ \E r \in WebRequests :
          \/ \E s \in sessions : resolve(r, s)
          \/ \E u \in Users, role \in {"admin", "user"} : change_role(r, u, role)
          \/ \E u \in Users : revoke_access(r, u) \/ restore_access(r, u)
          \/ retire_owned_credentials(r) \/ connect(r) \/ revoke_session(r) \/ die(r)
          \/ \E ch \in PrivateChannels : create_channel(r, ch)
          \/ \E p \in DynamicProviders :
                remove_provider(r, p) \/ \E config \in Configs : write_provider(r, p, config)
    \/ \E aud \in [PackageChannels -> Audiences] : synchronize(aud)

SignInSpec == SignInInit /\ [][SignInNext]_signInVars

-----------------------------------------------------------------------------

SignInTypeOK ==
    /\ users \in [Users -> Records \cup {Nil}]
    /\ denied \subseteq Emails /\ removed \subseteq Users
    /\ \A a \in accounts : a.provider \in Providers /\ a.subject \in Subjects /\ Person(a.user)
    /\ \A s \in sessions : Person(s.user) /\ s.gen <= users[s.user].gen /\ s.via \in Attempts
    /\ registry \in [DynamicProviders -> Configs \cup {Nil}]
    /\ members \subseteq Users \X Channels /\ private \subseteq PrivateChannels /\ creds \subseteq Users
    /\ \A c \in Callbacks : cb[c].pc \in {"idle", "burnt", "loaded", "verified", "signed_in", "failed", "corrupt"}
    /\ \A r \in WebRequests : req[r].pc \in {"idle", "resolved", "retire", "done", "died"}
    /\ Cardinality({a \in Attempts : attempts[a].phase = "open"}) <= Capacity

\* An attempt's state is redeemed by one callback only, however many present it:
\* consume deletes the row before anything else looks at it.
StateIsBurntOnce ==
    \A c, d \in Callbacks :
        c # d /\ cb[c].attempt # Nil => cb[c].attempt # cb[d].attempt

\* A person an administrator removed holds no session row until restored, even if
\* the identity provider has since given them another address: revocation and
\* sign-in are serialized and the sign-in asks for the stored address too.
RemovedStaysOut ==
    \A s \in sessions : s.user \notin removed

\* A session that resolve_token refuses is never accepted again: restoring access,
\* or a role changed back, does not revive what a revocation ended.
DeadNeverRevives ==
    [][\A s \in sessions : ~Resolves(s) => (s \notin sessions' \/ ~Resolves(s)')]_signInVars

\* A sign-in that succeeds hands out a session the next request can use: the
\* generation is minted after the sign-in's own changes advanced it.
SignInYieldsUsable ==
    [][\A s \in sessions' \ sessions : Resolves(s)']_signInVars

\* Whatever administrators do to each other at the same time, and whatever the
\* identity providers report, an effective administrator remains once there is one.
AdminRemains ==
    [][(\E u \in Users : EffectiveAdmin(u)) => (\E u \in Users : EffectiveAdmin(u))']_signInVars

\* Nobody is a member of a package channel whose audience does not include the
\* groups of their last verified sign-in, although packages change under people
\* who stay signed in and match group names by another rule than a sign-in does.
MembersAreEntitled ==
    \A m \in members : m[2] \in PackageChannels =>
        Person(m[1]) /\ Entitled(users[m[1]].groups, m[2])

\* A removed person's personal credentials are retired, or the request that was to
\* retire them is still at it or died after its first commit.
RetirementIsOwed ==
    \A u \in removed \cap creds :
        \E r \in WebRequests : req[r].pc \in {"retire", "died"} /\ req[r].actor = u

\* A sign-in is the sign-in of the person its subject is anchored to, whatever
\* address the provider reports now and whoever holds that address.
SignInFollowsAnchor ==
    [][\A c \in Callbacks : (cb[c].pc = "verified" /\ cb'[c].pc = "signed_in") =>
        LET p == attempts[cb[c].attempt].provider IN
        \A s \in sessions' : s.via = cb[c].attempt =>
            \A a \in accounts' : a.provider = p /\ a.subject = cb[c].identity.subject => a.user = s.user]_signInVars

\* Who may use the server: states are redeemed once, a removed person has neither
\* session nor, in the end, credentials, and members belong to their channel
\* (consume, issue_federated, change_access, reconcile_memberships).
SignInSafety ==
    /\ SignInTypeOK /\ StateIsBurntOnce /\ RemovedStaysOut
    /\ RetirementIsOwed /\ MembersAreEntitled
=============================================================================

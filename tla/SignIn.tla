------------------------------- MODULE SignIn -------------------------------
(***************************************************************************)
(* Who may become whom: the platform's claim, accounts, linked identities, *)
(* passkeys, sessions and verified domains.                                *)
(*                                                                         *)
(*   start-up    Bootstrap.Prepare            (src/internal/auth)          *)
(*   sign-in     Resolver.Resolve: known identity, link by email, sign-up; *)
(*               explicit link; PasskeyLogin, PasskeySignup, AddPasskey    *)
(*   sign-out    logout, back-channel and SAML logout, session.revoke and  *)
(*               revoke_all, user.sessions.revoke, SCIM deprovisioning     *)
(*   settings    identity.unlink, passkey.delete, platform.settings.update,*)
(*               org.domain.*, user.delete            (src/internal/action)*)
(*                                                                         *)
(* Each of them is one IMMEDIATE transaction, so one step, but for         *)
(* org.domain.verify, which reads its row and asks DNS before it writes.   *)
(* A refusal rolls back and is left out.  A request is authenticated       *)
(* before its transaction starts, so it may run after its session ended.   *)
(* What other tables decide (trust_email, allow_signup, JIT, a SCIM row,   *)
(* an invitation's address) is an input of the step; Tenancy has them.     *)
(***************************************************************************)
EXTENDS Integers, Sequences, FiniteSets

CONSTANTS
    Users,        \* user ids
    Emails,       \* email addresses
    OnDomain,     \* the addresses on the one domain organisations can verify
    Accts,        \* accounts at identity providers: (provider, subject) pairs
    ProviderOf,   \* the provider of each account
    OwnerOf,      \* the organisation that owns each account's provider, or NONE
    Orgs,         \* organisations
    Creds,        \* passkeys
    Configs,      \* start-up settings: [env : a bootstrap token is set, admins]
    MaxStarts,    \* bound: starts of the server
    MaxSessions,  \* bound: sessions ever issued
    MaxRows,      \* bound: domain rows ever added
    NONE

Providers == {ProviderOf[a] : a \in Accts}
EnvToken == MaxStarts + 1     \* BC_BOOTSTRAP_TOKEN; the others are 1..MaxStarts
Tokens == 1..EnvToken
Passkey == "passkey"          \* the reserved provider id of passkey sessions

ASSUME SignInAssumption ==
    /\ DOMAIN ProviderOf = Accts /\ OwnerOf \in [Accts -> Orgs \cup {NONE}]
    /\ OnDomain \subseteq Emails
    /\ Configs \subseteq [env : BOOLEAN, admins : SUBSET Emails]
    /\ MaxStarts \in Nat \ {0} /\ MaxSessions \in Nat /\ MaxRows \in Nat
    /\ NONE \notin Users \cup Orgs \cup Emails \cup Accts \cup {Passkey} /\ Passkey \notin Accts

User == [state : {"absent", "live", "deleted"}, email : Emails \cup {NONE}, confirmed : BOOLEAN]
Session == [user : Users, via : Accts \cup {Passkey, NONE}]
DomainRow == [org : Orgs, state : {"pending", "verified", "removed"}]

VARIABLES
    config,     \* the settings of the running server
    starts,     \* starts so far
    stored,     \* the generated token whose hash is stored; 0 for none
    done,       \* platform_settings.bootstrap_done
    claims,     \* history: the tokens the platform was claimed with (0: by address)
    users,      \* the users table
    identity,   \* the user each account is linked to, or NONE
    passkeys,   \* the user each passkey is registered to, or NONE
    passkeysOn, \* platform_settings.passkeys_enabled
    sessions,   \* the sessions issued, in order; one that ended is via NONE
    rows,       \* org_domains, in order of creation; tokens are never reused
    checks,     \* rows of requests between their DNS lookup and their write
    proved      \* history: existing rows whose own token was found in DNS

vars == <<config, starts, stored, done, claims, users, identity, passkeys, passkeysOn,
          sessions, rows, checks, proved>>

platform == <<config, starts>>
bootstrap == <<stored, done, claims>>
domains == <<rows, checks, proved>>

-----------------------------------------------------------------------------
IsLive(u) == users[u].state = "live"
WithEmail(e) == {u \in Users : users[u].email = e}
LiveSessions == {s \in DOMAIN sessions : sessions[s].via # NONE}

\* Someone who signed in as u; the session may have ended since.
Authenticated(u) == \E s \in DOMAIN sessions : sessions[s].user = u

\* The organisation that verified the domain of e.
VerifiedOrgForEmail(e) ==
    IF e \in OnDomain /\ \E r \in DOMAIN rows : rows[r].state = "verified"
    THEN rows[CHOOSE r \in DOMAIN rows : rows[r].state = "verified"].org
    ELSE NONE

\* a is of a provider of an organisation that verified the domain of e.
OrgVouches(a, e) == OwnerOf[a] # NONE /\ VerifiedOrgForEmail(e) = OwnerOf[a]

End(ss, gone) == [s \in DOMAIN ss |-> IF s \in gone THEN [ss[s] EXCEPT !.via = NONE] ELSE ss[s]]
SessionsOf(u) == {s \in LiveSessions : sessions[s].user = u}

\* Presented: an existing session, or 0 for none.
Presentable == LiveSessions \cup {0}

\* Rotation: the session the browser presented ends, a new one is issued.
CreateSession(u, via) ==
    /\ Len(sessions) < MaxSessions
    /\ \E presented \in Presentable :
          sessions' = Append(End(sessions, {presented}), [user |-> u, via |-> via])

-----------------------------------------------------------------------------
(* The platform's claim                                                    *)

\* Prepare: an unclaimed platform without a token or an address in its
\* settings gets a new token, which replaces the one stored before.
Prepare(c, token, n) ==
    IF done \/ c.env \/ c.admins # {} THEN token ELSE n

\* expectedHash: the settings' token when there is one, else the stored one.
ExpectedToken == IF config.env THEN EnvToken ELSE stored

\* Mutant: a token generated at an earlier start still counts.
ClaimsWithAny(token) == ~done /\ token \in {ExpectedToken} \cup 1..starts

Claims(token) == ~done /\ ExpectedToken # 0 /\ token = ExpectedToken

\* The gate of Resolve: before the platform is claimed only a verified address
\* of the settings, through a platform provider, or the token gets through.
IsAdmin(a, e, ver) == ver /\ e \in config.admins /\ OwnerOf[a] = NONE

Gate(a, e, ver, token) == done \/ IsAdmin(a, e, ver) \/ Claims(token)

\* SetBootstrapDone, which forgets the stored token, and the audit row.
SetBootstrapDone(token) ==
    /\ done' = TRUE /\ stored' = 0
    /\ claims' = Append(claims, token)

\* The settings matter while the platform is unclaimed.  A later restart loses
\* the lookups in flight and nothing else, as a lookup that never ends does.
Restart(c) ==
    /\ starts < MaxStarts /\ ~done
    /\ config' = c /\ starts' = starts + 1
    /\ stored' = Prepare(c, stored, starts + 1)
    /\ UNCHANGED <<done, claims, users, identity, passkeys, passkeysOn, sessions, domains>>

Init ==
    /\ done = FALSE /\ claims = <<>> /\ starts = 1
    /\ config \in Configs
    /\ stored = Prepare(config, 0, 1)
    /\ users = [u \in Users |-> [state |-> "absent", email |-> NONE, confirmed |-> FALSE]]
    /\ identity = [a \in Accts |-> NONE]
    /\ passkeys = [c \in Creds |-> NONE] /\ passkeysOn = TRUE
    /\ sessions = <<>>
    /\ rows = <<>> /\ checks = {} /\ proved = {}

-----------------------------------------------------------------------------
(* Sign-in through an identity provider                                    *)

\* An assertion: the account, the address it names and whether the provider
\* verified it; the bootstrap token its flow proved, 0 for none.
Assertions ==
    [acct : Accts, email : Emails, ver : BOOLEAN, token : IF done THEN {0} ELSE Tokens \cup {0}]

Resolved(x, u) ==
    /\ Gate(x.acct, x.email, x.ver, x.token)
    /\ IF done THEN UNCHANGED bootstrap
       ELSE SetBootstrapDone(IF IsAdmin(x.acct, x.email, x.ver) THEN 0 ELSE x.token)
    /\ CreateSession(u, x.acct)
    /\ UNCHANGED <<platform, passkeys, passkeysOn, domains>>

\* Step 1: the account is linked already.
LoginKnown(x) ==
    /\ identity[x.acct] # NONE /\ IsLive(identity[x.acct])
    /\ Resolved(x, identity[x.acct])
    /\ UNCHANGED <<users, identity>>

Trusted(x, trust) ==
    x.ver /\ trust /\ (OwnerOf[x.acct] = NONE \/ OrgVouches(x.acct, x.email))

\* Step 3: the users an unseen account is linked to by its address; trust is
\* the provider's trust_email, active an active SCIM row in its organisation.
LinkTargets(x, trust, active) ==
    {u \in WithEmail(x.email) :
        /\ IsLive(u)
        /\ \/ Trusted(x, trust) /\ users[u].confirmed
           \/ ~Trusted(x, trust) /\ OrgVouches(x.acct, x.email) /\ active}

LoginLink(x, trust, active) ==
    /\ identity[x.acct] = NONE
    /\ \E u \in LinkTargets(x, trust, active) :
          /\ Resolved(x, u)
          /\ identity' = [identity EXCEPT ![x.acct] = u]
    /\ UNCHANGED users

\* signUpMethod: the address with which the unseen account may make a new user.
\* invited is the address of a pending invitation, or NONE; without one it is
\* the platform's claim, JIT, or open sign-up where those are on.
SignUpMethod(x, invited, e) ==
    \/ invited # NONE /\ e = invited
    \/ /\ invited = NONE /\ e = x.email
       /\ \/ x.ver /\ ~done
          \/ OrgVouches(x.acct, x.email)
          \/ x.ver /\ OwnerOf[x.acct] = NONE

CreateUser(u, e, confirmed) ==
    /\ users[u].state = "absent" /\ WithEmail(e) = {}
    /\ users' = [users EXCEPT ![u] = [state |-> "live", email |-> e, confirmed |-> confirmed]]

\* Step 4: sign-up, refused when the address is taken.
LoginSignUp(x, trust, active, invited, e, u) ==
    /\ identity[x.acct] = NONE
    /\ SignUpMethod(x, invited, e)
    /\ CreateUser(u, e, TRUE)
    /\ LinkTargets(x, trust, active) = {}
    /\ Resolved(x, u)
    /\ identity' = [identity EXCEPT ![x.acct] = u]

\* Step 2: linkTx, for the live session s that started the link; one account
\* per provider, and never one of another user.
LinkIdentity(a, s) ==
    LET u == sessions[s].user
    IN  /\ s \in LiveSessions /\ IsLive(u) /\ identity[a] = NONE
        /\ \A b \in Accts : ProviderOf[b] = ProviderOf[a] => identity[b] # u
        /\ identity' = [identity EXCEPT ![a] = u]
        /\ UNCHANGED <<platform, bootstrap, users, passkeys, passkeysOn, sessions, domains>>

-----------------------------------------------------------------------------
(* Passkeys                                                                *)

\* PasskeyLogin, with a signature counter that is not a clone's.
PasskeyLogin(c) ==
    /\ passkeysOn /\ done
    /\ passkeys[c] # NONE /\ IsLive(passkeys[c])
    /\ CreateSession(passkeys[c], Passkey)
    /\ UNCHANGED <<platform, bootstrap, users, identity, passkeys, passkeysOn, domains>>

\* Mutant: an invitation is enough before the platform is claimed.
PasskeyMethodUngated(u, e, token) ==
    \/ Claims(token) /\ SetBootstrapDone(token) /\ CreateUser(u, e, FALSE)
    \/ token = 0 /\ UNCHANGED bootstrap /\ CreateUser(u, e, TRUE)

\* With the bootstrap token: the address is typed and nobody confirmed it.
\* With an invitation: the platform is claimed, the address the invitation's.
PasskeyMethod(u, e, token) ==
    \/ Claims(token) /\ SetBootstrapDone(token) /\ CreateUser(u, e, FALSE)
    \/ token = 0 /\ done /\ UNCHANGED bootstrap /\ CreateUser(u, e, TRUE)

PasskeySignup(u, e, token, c) ==
    /\ passkeysOn
    /\ PasskeyMethod(u, e, token)
    /\ passkeys[c] = NONE
    /\ passkeys' = [passkeys EXCEPT ![c] = u]
    /\ CreateSession(u, Passkey)
    /\ UNCHANGED <<platform, identity, passkeysOn, domains>>

\* AddPasskey: the user is not read again, so it may be deleted by now.  (Creds
\* stays below the limit of MaxPasskeysPerUser.)
AddPasskey(u, c) ==
    /\ passkeysOn /\ Authenticated(u) /\ passkeys[c] = NONE
    /\ passkeys' = [passkeys EXCEPT ![c] = u]
    /\ UNCHANGED <<platform, bootstrap, users, identity, passkeysOn, sessions, domains>>

-----------------------------------------------------------------------------
(* Sign-in methods                                                         *)

Identities(u, ids) == {a \in Accts : ids[a] = u}
PasskeysOf(u, pks) == {c \in Creds : pks[c] = u}

\* Mutant: passkeys count even while the platform has them off.
CountAll(u, ids, pks) == Cardinality(Identities(u, ids)) + Cardinality(PasskeysOf(u, pks))

SignInMethodCount(u, ids, pks) ==
    Cardinality(Identities(u, ids)) + (IF passkeysOn THEN Cardinality(PasskeysOf(u, pks)) ELSE 0)

\* RevokeUserProviderSessions.
ProviderSessions(u, p) ==
    {s \in SessionsOf(u) : sessions[s].via \in {a \in Accts : ProviderOf[a] = p}}

\* Mutant: nothing is revoked.
NoProviderSessions(u, a) == UNCHANGED sessions

RevokeUserProviderSessions(u, a) == sessions' = End(sessions, ProviderSessions(u, ProviderOf[a]))

\* identity.unlink: counted after the delete; sessions through the provider end.
IdentityUnlink(u, a) ==
    /\ Authenticated(u) /\ identity[a] = u
    /\ identity' = [identity EXCEPT ![a] = NONE]
    /\ SignInMethodCount(u, identity', passkeys) >= 1
    /\ RevokeUserProviderSessions(u, a)
    /\ UNCHANGED <<platform, bootstrap, users, passkeys, passkeysOn, domains>>

\* passkey.delete: sessions signed in with the passkey go on.
PasskeyDelete(u, c) ==
    /\ Authenticated(u) /\ c \in PasskeysOf(u, passkeys)
    /\ passkeys' = [passkeys EXCEPT ![c] = NONE]
    /\ SignInMethodCount(u, identity, passkeys') >= 1
    /\ UNCHANGED <<platform, bootstrap, users, identity, passkeysOn, sessions, domains>>

PlatformSettingsUpdate ==
    /\ done /\ passkeysOn' = ~passkeysOn
    /\ UNCHANGED <<platform, bootstrap, users, identity, passkeys, sessions, domains>>

\* user.delete: the scrubbed address '' is unique, so only one user can go.
UserDelete(u) ==
    /\ users[u].state # "absent" /\ \A v \in Users \ {u} : users[v].state # "deleted"
    /\ users' = [users EXCEPT ![u].state = "deleted", ![u].email = NONE]
    /\ identity' = [a \in Accts |-> IF identity[a] = u THEN NONE ELSE identity[a]]
    /\ passkeys' = [c \in Creds |-> IF passkeys[c] = u THEN NONE ELSE passkeys[c]]
    /\ sessions' = End(sessions, SessionsOf(u))
    /\ UNCHANGED <<platform, bootstrap, passkeysOn, domains>>

\* A directory creates an account nobody signed in to yet.
ScimCreateUser(u, e) ==
    /\ done /\ CreateUser(u, e, TRUE)
    /\ UNCHANGED <<platform, bootstrap, identity, passkeys, passkeysOn, sessions, domains>>

-----------------------------------------------------------------------------
(* Ends of sessions                                                        *)

EndSessions(gone) ==
    /\ gone # {} /\ sessions' = End(sessions, gone)
    /\ UNCHANGED <<platform, bootstrap, users, identity, passkeys, passkeysOn, domains>>

\* Logout, session.revoke, expiry and a logout token that names a session.
SessionRevoke(s) == s \in LiveSessions /\ EndSessions({s})

\* session.revoke_all, keeping the session keep (0: none); user.sessions.revoke
\* and SCIM deprovisioning of a user without an organisation end them all.
SessionRevokeAll(u, keep) == EndSessions(SessionsOf(u) \ {keep})

\* A logout token or SAML request that names the account only.
BackChannelLogout(a) == EndSessions({s \in LiveSessions : sessions[s].via = a})

-----------------------------------------------------------------------------
(* Domains                                                                 *)

DomainsOnly == UNCHANGED <<platform, bootstrap, users, identity, passkeys, passkeysOn, sessions>>
VerifiedBy(o) == \E r \in DOMAIN rows : rows[r].state = "verified" /\ rows[r].org = o
TakenFrom(o) == \E p \in Orgs \ {o} : VerifiedBy(p)

DomainAdd(o) ==
    /\ done /\ Len(rows) < MaxRows /\ ~TakenFrom(o)
    /\ \A r \in DOMAIN rows : rows[r].org = o => rows[r].state = "removed"
    /\ rows' = Append(rows, [org |-> o, state |-> "pending"])
    /\ DomainsOnly /\ UNCHANGED <<checks, proved>>

\* org.domain.verify up to the lookup, outside its transaction: the row, whether
\* another organisation has the domain, then DNS, which holds the row's token.
DomainCheck(r) ==
    /\ r \in DOMAIN rows \ checks
    /\ rows[r].state = "pending" /\ ~TakenFrom(rows[r].org)
    /\ checks' = checks \cup {r} /\ proved' = proved \cup {r}
    /\ DomainsOnly /\ UNCHANGED rows

\* Mutant: the write names the organisation and the domain, not the row.
MarkCurrent(r) ==
    {n \in DOMAIN rows : rows[n].org = rows[r].org /\ rows[n].state = "pending"}

\* MarkOrgDomainVerified: the rows the write finds, by id and token, unverified.
MarkOrgDomainVerified(r) == {n \in {r} : rows[n].state = "pending"}

\* Mutant: a unique violation is not looked for.
DomainFree(r) == TRUE

\* No other organisation verified the domain: the unique index of migration 0036.
VerifiedOnce(r) == ~TakenFrom(rows[r].org)

\* The write: no row, when it was removed or verified meanwhile; a unique
\* violation, when another organisation verified the domain meanwhile.
DomainMark(r) ==
    /\ r \in checks /\ checks' = checks \ {r}
    /\ rows' = IF ~VerifiedOnce(r) THEN rows
               ELSE [n \in DOMAIN rows |-> IF n \in MarkOrgDomainVerified(r)
                                           THEN [rows[n] EXCEPT !.state = "verified"] ELSE rows[n]]
    /\ DomainsOnly /\ UNCHANGED proved

DomainRemove(r) ==
    /\ r \in DOMAIN rows /\ rows[r].state # "removed"
    /\ rows' = [rows EXCEPT ![r].state = "removed"]
    /\ proved' = proved \ {r}
    /\ DomainsOnly /\ UNCHANGED checks

-----------------------------------------------------------------------------
CanSignIn == Len(sessions) < MaxSessions
Absent == {u \in Users : users[u].state = "absent"}

ByProvider ==
    /\ CanSignIn
    /\ \E x \in Assertions :
          \/ LoginKnown(x)
          \/ \E trust, active \in BOOLEAN : LoginLink(x, trust, active)
          \/ \E u \in Absent, trust, active \in BOOLEAN, i \in Emails \cup {NONE}, e \in Emails :
                LoginSignUp(x, trust, active, i, e, u)

ByPasskey ==
    /\ CanSignIn
    /\ \E c \in Creds :
          \/ PasskeyLogin(c)
          \/ \E u \in Absent, e \in Emails, t \in Tokens \cup {0} : PasskeySignup(u, e, t, c)

Methods ==
    \/ \E a \in Accts, s \in LiveSessions : LinkIdentity(a, s)
    \/ \E u \in Users, c \in Creds : AddPasskey(u, c) \/ PasskeyDelete(u, c)
    \/ \E u \in Users, a \in Accts : IdentityUnlink(u, a)
    \/ PlatformSettingsUpdate
    \/ \E u \in Users : UserDelete(u)
    \/ \E u \in Users, e \in Emails : ScimCreateUser(u, e)

Ends ==
    \/ \E s \in LiveSessions : SessionRevoke(s)
    \/ \E u \in Users, keep \in Presentable : SessionRevokeAll(u, keep)
    \/ \E a \in Accts : BackChannelLogout(a)

Domain ==
    \/ \E o \in Orgs : DomainAdd(o)
    \/ \E r \in 1..MaxRows : DomainCheck(r) \/ DomainMark(r) \/ DomainRemove(r)

Next == (\E c \in Configs : Restart(c)) \/ ByProvider \/ ByPasskey \/ Methods \/ Ends \/ Domain

Spec == Init /\ [][Next]_vars

-----------------------------------------------------------------------------
(* Properties                                                              *)

\* Every table holds rows of its shape, and one organisation has the domain
\* however their verifications overlap (org_domains.go 275-316).
TypeOK ==
    /\ config \in Configs /\ starts \in 1..MaxStarts /\ stored \in 0..MaxStarts
    /\ done \in BOOLEAN /\ claims \in Seq(Tokens \cup {0})
    /\ users \in [Users -> User]
    /\ identity \in [Accts -> Users \cup {NONE}]
    /\ passkeys \in [Creds -> Users \cup {NONE}]
    /\ passkeysOn \in BOOLEAN
    /\ sessions \in Seq(Session) /\ Len(sessions) <= MaxSessions
    /\ rows \in Seq(DomainRow) /\ Len(rows) <= MaxRows
    /\ Cardinality({r \in DOMAIN rows : rows[r].state = "verified"}) <= 1
    /\ checks \subseteq DOMAIN rows /\ proved \subseteq DOMAIN rows

\* The platform is claimed once, whatever the order of starts, tokens and
\* sign-ins: before the claim nobody has an account, an identity, a passkey or a
\* session, and of racing claims one is recorded (resolve.go 160-182,
\* passkey_resolve.go 150-170).
ClaimedOnce ==
    /\ Len(claims) = (IF done THEN 1 ELSE 0)
    /\ ~done => /\ \A u \in Users : users[u].state = "absent"
                /\ sessions = <<>>

\* A claim by token is by the token in force: the settings' one, or without
\* one the last that was generated, so a flow begun with an earlier token
\* fails (bootstrap.go: "only the latest logged URL works").
ClaimByTokenInForce ==
    [][claims' # claims =>
          \/ claims' = Append(claims, 0) /\ config.admins # {}
          \/ claims' = Append(claims, EnvToken) /\ config.env
          \/ claims' = Append(claims, stored) /\ ~config.env /\ stored # 0]_vars

\* An account becomes another sign-in method of an existing user only with
\* proof of control: that user's own live session; the address, verified by a
\* platform provider, of a user whose address somebody confirmed; or a domain
\* that the provider's organisation verified with that row's own DNS token.
ProvedControl ==
    [][\A a \in Accts :
          LET u == identity'[a]
          IN  identity[a] = NONE /\ u # NONE /\ IsLive(u) =>
                \/ SessionsOf(u) # {} /\ sessions' = sessions
                \/ OwnerOf[a] = NONE /\ users[u].confirmed
                \/ /\ users[u].email \in OnDomain
                   /\ \E r \in proved : rows[r].org = OwnerOf[a] /\ rows[r].state = "verified"]_vars

\* The ways in that u has.
WaysIn(u) ==
    {a \in Accts : identity[a] = u}
    \cup {c \in Creds : passkeysOn /\ passkeys[c] = u}

\* Nobody loses the last way in by unlinking identities and deleting passkeys
\* in any order, also after passkeys were turned off and on; only turning
\* passkeys off for everyone, or deleting the user, can do it.
MethodKept ==
    [][\A u \in Users :
          WaysIn(u) # {} /\ WaysIn(u)' = {} => ~IsLive(u)' \/ (passkeysOn /\ ~passkeysOn')]_vars

\* A session made through an account belongs to the user the account is linked
\* to now: unlinking, deleting and linking again never leave a session that
\* speaks for somebody else's account.
SessionsFollowIdentities ==
    \A s \in LiveSessions :
        /\ IsLive(sessions[s].user)
        /\ sessions[s].via # Passkey => identity[sessions[s].via] = sessions[s].user
=============================================================================

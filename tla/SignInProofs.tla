---------------------------- MODULE SignInProofs ----------------------------
(***************************************************************************)
(* The properties of SignIn for any numbers of people, accounts, passkeys, *)
(* organisations, sessions and domain rows, and any start-up settings.     *)
(*                                                                         *)
(* The invariant adds to the properties that only live users have linked   *)
(* accounts (IdentitiesLive), that an organisation has one current row for *)
(* the domain (OneRowPerOrg), and that a row is verified, or about to be,  *)
(* only once its own token was found in DNS (VerifiedProved).              *)
(***************************************************************************)
EXTENDS SignIn, FiniteSetTheorems, SequenceTheorems, TLAPS

-----------------------------------------------------------------------------
(* The conjuncts of TypeOK by the variables they are about                 *)

PlatformTypes == config \in Configs /\ starts \in 1..MaxStarts

BootstrapTypes ==
    stored \in 0..MaxStarts /\ done \in BOOLEAN /\ claims \in Seq(Tokens \cup {0})

AccountTypes ==
    /\ users \in [Users -> User]
    /\ identity \in [Accts -> Users \cup {NONE}]
    /\ passkeys \in [Creds -> Users \cup {NONE}]
    /\ passkeysOn \in BOOLEAN

SessionTypes == sessions \in Seq(Session) /\ Len(sessions) <= MaxSessions

DomainTypes ==
    /\ rows \in Seq(DomainRow) /\ Len(rows) <= MaxRows
    /\ checks \subseteq DOMAIN rows /\ proved \subseteq DOMAIN rows

Typed == PlatformTypes /\ BootstrapTypes /\ AccountTypes /\ SessionTypes /\ DomainTypes

-----------------------------------------------------------------------------
(* The invariant                                                           *)

\* Only a live user has linked accounts: user.delete unlinks them all.
IdentitiesLive == \A a \in Accts : identity[a] # NONE => IsLive(identity[a])

\* An organisation adds the domain again only after it removed its row.
OneRowPerOrg ==
    \A r, q \in DOMAIN rows :
        rows[r].org = rows[q].org /\ rows[r].state # "removed" /\ rows[q].state # "removed" => r = q

\* The unique index of migration 0036: one row of all organisations is verified.
OneVerified ==
    \A r, q \in DOMAIN rows : rows[r].state = "verified" /\ rows[q].state = "verified" => r = q

\* A row's own token was in DNS before the row is, or can still become, verified.
VerifiedProved ==
    \A r \in DOMAIN rows :
        rows[r].state = "verified" \/ (rows[r].state = "pending" /\ r \in checks) => r \in proved

DomainInv == OneRowPerOrg /\ OneVerified /\ VerifiedProved

IInv == Typed /\ DomainInv /\ ClaimedOnce /\ IdentitiesLive /\ SessionsFollowIdentities

-----------------------------------------------------------------------------
(* Operators                                                               *)

\* Ending sessions keeps their number, their users and the other sessions.
LEMMA EndSeq ==
    ASSUME NEW ss \in Seq(Session), NEW gone
    PROVE  /\ End(ss, gone) \in Seq(Session)
           /\ Len(End(ss, gone)) = Len(ss)
           /\ DOMAIN End(ss, gone) = DOMAIN ss
           /\ \A s \in DOMAIN ss :
                 /\ End(ss, gone)[s].user = ss[s].user
                 /\ s \in gone => End(ss, gone)[s].via = NONE
                 /\ s \notin gone => End(ss, gone)[s] = ss[s]
<1>1. /\ Len(ss) \in Nat /\ DOMAIN ss = 1..Len(ss)
      /\ \A s \in 1..Len(ss) : ss[s] \in Session
  BY LenProperties, ElementOfSeq
<1>2. \A s \in 1..Len(ss) : [ss[s] EXCEPT !.via = NONE] \in Session
  BY <1>1 DEF Session
<1>3. End(ss, gone) \in [1..Len(ss) -> Session]
  BY <1>1, <1>2 DEF End
<1>4. End(ss, gone) \in Seq(Session) /\ Len(End(ss, gone)) = Len(ss)
  BY <1>1, <1>3, SeqDef, LenProperties
<1>5. \A s \in DOMAIN ss : /\ End(ss, gone)[s].user = ss[s].user
                           /\ s \in gone => End(ss, gone)[s].via = NONE
                           /\ s \notin gone => End(ss, gone)[s] = ss[s]
  BY <1>1 DEF End, Session
<1> QED BY <1>1, <1>3, <1>4, <1>5

\* The columns of a session.
LEMMA SessionRows ==
    SessionTypes => \A s \in DOMAIN sessions :
        sessions[s].user \in Users /\ sessions[s].via \in Accts \cup {Passkey, NONE}
<1> SUFFICES ASSUME SessionTypes, NEW s \in DOMAIN sessions
             PROVE  sessions[s].user \in Users /\ sessions[s].via \in Accts \cup {Passkey, NONE}
  OBVIOUS
<1>1. sessions \in Seq(Session) /\ s \in 1..Len(sessions)
  BY LenProperties DEF SessionTypes
<1>2. sessions[s] \in Session
  BY <1>1, ElementOfSeq
<1> QED BY <1>2 DEF Session

\* What a rotation leaves: the sessions there were, some of them ended, and one
\* of u through via.
Rotated(u, via) ==
    /\ sessions' \in Seq(Session) /\ Len(sessions') <= MaxSessions
    /\ \A s \in DOMAIN sessions' :
          \/ /\ s \in DOMAIN sessions /\ sessions'[s].user = sessions[s].user
             /\ sessions'[s].via \in {sessions[s].via, NONE}
          \/ sessions'[s].user = u /\ sessions'[s].via = via

\* What the end of the sessions in gone leaves.
Ended(gone) ==
    /\ sessions' \in Seq(Session) /\ Len(sessions') = Len(sessions)
    /\ DOMAIN sessions' = DOMAIN sessions
    /\ \A s \in DOMAIN sessions :
          /\ sessions'[s].user = sessions[s].user
          /\ sessions'[s].via \in {sessions[s].via, NONE}
          /\ s \in gone => sessions'[s].via = NONE

LEMMA CreateSessionRotates ==
    ASSUME SessionTypes, NEW u \in Users, NEW via \in Accts \cup {Passkey}, CreateSession(u, via)
    PROVE  Rotated(u, via)
<1>1. PICK p \in Presentable : sessions' = Append(End(sessions, {p}), [user |-> u, via |-> via])
  BY DEF CreateSession
<1> DEFINE e == End(sessions, {p})
           x == [user |-> u, via |-> via]
<1>2. /\ sessions \in Seq(Session) /\ Len(sessions) \in Nat /\ MaxSessions \in Nat
      /\ DOMAIN sessions = 1..Len(sessions) /\ Len(sessions) < MaxSessions
  BY LenProperties, SignInAssumption DEF SessionTypes, CreateSession
<1>3. /\ e \in Seq(Session) /\ Len(e) = Len(sessions)
      /\ \A s \in DOMAIN sessions : /\ e[s].user = sessions[s].user
                                    /\ s \in {p} => e[s].via = NONE
                                    /\ s \notin {p} => e[s] = sessions[s]
  BY <1>2, EndSeq
<1>4. x \in Session
  BY DEF Session
<1> HIDE DEF e, x
<1>5. /\ Append(e, x) \in Seq(Session) /\ Len(Append(e, x)) = Len(e) + 1
      /\ \A s \in 1..Len(e) : Append(e, x)[s] = e[s]
      /\ Append(e, x)[Len(e) + 1] = x
  BY <1>3, <1>4, AppendProperties
<1>6. DOMAIN Append(e, x) = 1..(Len(e) + 1)
  BY <1>5, LenProperties
<1>7. x.user = u /\ x.via = via
  BY DEF x
<1>8. sessions' = Append(e, x)
  BY <1>1 DEF e, x
<1>9. ASSUME NEW s \in 1..(Len(sessions) + 1)
      PROVE  \/ /\ s \in DOMAIN sessions /\ sessions'[s].user = sessions[s].user
                /\ sessions'[s].via \in {sessions[s].via, NONE}
             \/ sessions'[s].user = u /\ sessions'[s].via = via
  <2>1. CASE s = Len(sessions) + 1
    BY <1>3, <1>5, <1>7, <1>8, <2>1
  <2>2. CASE s # Len(sessions) + 1
    <3>1. s \in DOMAIN sessions /\ sessions'[s] = e[s]
      BY <1>2, <1>3, <1>5, <1>8, <2>2
    <3>2. e[s].via \in {sessions[s].via, NONE}
      BY <1>3, <3>1
    <3> QED BY <1>3, <3>1, <3>2
  <2> QED BY <2>1, <2>2
<1> QED BY <1>2, <1>3, <1>5, <1>6, <1>8, <1>9 DEF Rotated

LEMMA EndEnds ==
    ASSUME SessionTypes, NEW gone, sessions' = End(sessions, gone)
    PROVE  Ended(gone)
<1>1. sessions \in Seq(Session)
  BY DEF SessionTypes
<1>2. \A s \in DOMAIN sessions :
         /\ sessions'[s].user = sessions[s].user
         /\ s \in gone => sessions'[s].via = NONE
         /\ s \notin gone => sessions'[s] = sessions[s]
  BY <1>1, EndSeq
<1>3. \A s \in DOMAIN sessions : sessions'[s].via \in {sessions[s].via, NONE}
  BY <1>2
<1> QED BY <1>1, <1>2, <1>3, EndSeq DEF Ended

\* A claim keeps the tables of the claim in their shape.
LEMMA SetBootstrapDoneTypes ==
    ASSUME BootstrapTypes, NEW token \in Tokens \cup {0}, SetBootstrapDone(token)
    PROVE  BootstrapTypes'
<1>1. Append(claims, token) \in Seq(Tokens \cup {0})
  BY AppendProperties DEF BootstrapTypes
<1> QED BY <1>1, SignInAssumption DEF BootstrapTypes, SetBootstrapDone

\* What a resolved sign-in does besides the accounts.
LEMMA ResolvedEffect ==
    ASSUME Typed, NEW x \in Assertions, NEW u \in Users, Resolved(x, u)
    PROVE  /\ BootstrapTypes' /\ Rotated(u, x.acct)
           /\ done' = TRUE
           /\ UNCHANGED <<platform, passkeys, passkeysOn, domains>>
<1>1. x.acct \in Accts /\ x.token \in Tokens \cup {0}
  BY DEF Assertions
<1>2. BootstrapTypes' /\ done' = TRUE
  <2>1. CASE done
    BY <2>1 DEF Resolved, bootstrap, Typed, BootstrapTypes
  <2>2. CASE ~done
    <3>1. PICK t \in Tokens \cup {0} : SetBootstrapDone(t)
      BY <1>1, <2>2 DEF Resolved
    <3> QED BY <3>1, SetBootstrapDoneTypes DEF Typed, SetBootstrapDone
  <2> QED BY <2>1, <2>2
<1>3. Rotated(u, x.acct)
  BY <1>1, CreateSessionRotates DEF Resolved, Typed
<1> QED BY <1>2, <1>3 DEF Resolved

\* A new user's row.
LEMMA CreateUserEffect ==
    ASSUME AccountTypes, NEW u \in Users, NEW e \in Emails, NEW b \in BOOLEAN, CreateUser(u, e, b)
    PROVE  /\ users' \in [Users -> User]
           /\ users'[u].state = "live" /\ users[u].state = "absent"
           /\ \A v \in Users \ {u} : users'[v] = users[v]
  BY DEF AccountTypes, CreateUser, User

\* A sign-up with a passkey, by token or invitation.
LEMMA PasskeyMethodEffect ==
    ASSUME Typed, NEW u \in Users, NEW e \in Emails, NEW t \in Tokens \cup {0}, PasskeyMethod(u, e, t)
    PROVE  /\ BootstrapTypes' /\ done' = TRUE
           /\ \E b \in BOOLEAN : CreateUser(u, e, b)
<1>1. CASE Claims(t) /\ SetBootstrapDone(t) /\ CreateUser(u, e, FALSE)
  BY <1>1, SetBootstrapDoneTypes DEF Typed, SetBootstrapDone
<1>2. CASE t = 0 /\ done /\ UNCHANGED bootstrap /\ CreateUser(u, e, TRUE)
  BY <1>2 DEF Typed, BootstrapTypes, bootstrap
<1> QED BY <1>1, <1>2 DEF PasskeyMethod

\* All the ways sessions end are EndSessions.
LEMMA EndsAreEndSessions == Ends => \E gone : EndSessions(gone)
  BY DEF Ends, SessionRevoke, SessionRevokeAll, BackChannelLogout

-----------------------------------------------------------------------------
(* Types                                                                   *)

LEMMA InitTypes == Init => Typed
<1> SUFFICES ASSUME Init PROVE Typed
  OBVIOUS
<1>1. /\ claims \in Seq(Tokens \cup {0})
      /\ sessions \in Seq(Session) /\ Len(sessions) = 0
      /\ rows \in Seq(DomainRow) /\ Len(rows) = 0
  BY EmptySeq DEF Init
<1>2. Prepare(config, 0, 1) \in 0..MaxStarts
  BY SignInAssumption DEF Prepare
<1>a. MaxStarts \in Nat /\ MaxStarts >= 1 /\ MaxSessions \in Nat /\ MaxRows \in Nat
  BY SignInAssumption
<1>b. PlatformTypes
  BY <1>a DEF Init, PlatformTypes
<1>3. PlatformTypes /\ BootstrapTypes
  BY <1>b, <1>1, <1>2 DEF Init, BootstrapTypes
<1>4. AccountTypes
  BY DEF Init, AccountTypes, User
<1>5. SessionTypes /\ DomainTypes
  BY <1>1, SignInAssumption DEF Init, SessionTypes, DomainTypes
<1> QED BY <1>3, <1>4, <1>5 DEF Typed

\* What a step leaves alone keeps its types.
LEMMA TypesStay ==
    /\ PlatformTypes /\ UNCHANGED platform => PlatformTypes'
    /\ BootstrapTypes /\ UNCHANGED bootstrap => BootstrapTypes'
    /\ AccountTypes /\ UNCHANGED <<users, identity, passkeys, passkeysOn>> => AccountTypes'
    /\ SessionTypes /\ UNCHANGED sessions => SessionTypes'
    /\ DomainTypes /\ UNCHANGED domains => DomainTypes'
  BY DEF platform, bootstrap, domains, PlatformTypes, BootstrapTypes, AccountTypes,
         SessionTypes, DomainTypes

LEMMA RotatedTypes ==
    ASSUME SessionTypes, NEW u, NEW via, Rotated(u, via) PROVE SessionTypes'
  BY DEF Rotated, SessionTypes

LEMMA EndedTypes ==
    ASSUME SessionTypes, NEW gone, Ended(gone) PROVE SessionTypes'
  BY DEF Ended, SessionTypes

\* Changes of domain rows, which leave all other tables alone.
LEMMA DomainStepTypes == Typed /\ Domain => DomainTypes' /\ DomainsOnly
<1> SUFFICES ASSUME Typed, Domain PROVE DomainTypes' /\ DomainsOnly
  OBVIOUS
<1>0. /\ DomainTypes /\ MaxRows \in Nat
      /\ Len(rows) \in Nat /\ DOMAIN rows = 1..Len(rows)
      /\ \A n \in 1..Len(rows) : rows[n] \in DomainRow
  BY LenProperties, ElementOfSeq, SignInAssumption DEF Typed, DomainTypes
<1>1. ASSUME NEW o \in Orgs, DomainAdd(o) PROVE DomainTypes' /\ DomainsOnly
  <2> DEFINE new == [org |-> o, state |-> "pending"]
  <2>1. new \in DomainRow
    BY DEF DomainRow
  <2>2. /\ Append(rows, new) \in Seq(DomainRow)
        /\ Len(Append(rows, new)) = Len(rows) + 1
    BY <1>0, <2>1, AppendProperties DEF DomainTypes
  <2>3. DOMAIN Append(rows, new) = 1..(Len(rows) + 1)
    BY <2>2, LenProperties
  <2> QED BY <1>0, <1>1, <2>2, <2>3 DEF DomainAdd, DomainTypes
<1>2. ASSUME NEW r \in 1..MaxRows, DomainCheck(r) PROVE DomainTypes' /\ DomainsOnly
  BY <1>0, <1>2 DEF DomainCheck, DomainTypes
<1>3. ASSUME NEW r \in 1..MaxRows, DomainMark(r) PROVE DomainTypes' /\ DomainsOnly
  <2>1. \A n \in 1..Len(rows) : [rows[n] EXCEPT !.state = "verified"] \in DomainRow
    BY <1>0 DEF DomainRow
  <2>2. rows' \in [1..Len(rows) -> DomainRow]
    BY <1>0, <1>3, <2>1, LenProperties DEF DomainMark, DomainTypes
  <2>3. rows' \in Seq(DomainRow) /\ Len(rows') = Len(rows) /\ DOMAIN rows' = DOMAIN rows
    BY <1>0, <2>2, SeqDef, LenProperties
  <2> QED BY <1>0, <1>3, <2>3 DEF DomainMark, DomainTypes
<1>4. ASSUME NEW r \in 1..MaxRows, DomainRemove(r) PROVE DomainTypes' /\ DomainsOnly
  <2>1. r \in 1..Len(rows)
    BY <1>0, <1>4 DEF DomainRemove
  <2>2. [rows[r] EXCEPT !.state = "removed"] \in DomainRow
    BY <1>0, <2>1 DEF DomainRow
  <2>3. /\ rows' \in Seq(DomainRow) /\ Len(rows') = Len(rows)
    BY <1>0, <1>4, <2>1, <2>2, ExceptSeq DEF DomainRemove, DomainTypes
  <2>4. DOMAIN rows' = DOMAIN rows
    BY <1>0, <2>3, LenProperties
  <2> QED BY <1>0, <1>4, <2>3, <2>4 DEF DomainRemove, DomainTypes
<1> QED BY <1>1, <1>2, <1>3, <1>4 DEF Domain

LEMMA NextTypes == Typed /\ [Next]_vars => Typed'
<1> SUFFICES ASSUME Typed, [Next]_vars PROVE Typed'
  OBVIOUS
<1>0. PlatformTypes /\ BootstrapTypes /\ AccountTypes /\ SessionTypes /\ DomainTypes
  BY DEF Typed
<1>1. ASSUME NEW c \in Configs, Restart(c) PROVE Typed'
  <2>1. PlatformTypes'
    BY <1>0, <1>1, SignInAssumption DEF Restart, PlatformTypes
  <2>2. BootstrapTypes'
    BY <1>0, <1>1, SignInAssumption DEF Restart, Prepare, BootstrapTypes, PlatformTypes
  <2> QED BY <1>0, <1>1, <2>1, <2>2, TypesStay DEF Restart, Typed
<1>2. ASSUME NEW x \in Assertions, LoginKnown(x) PROVE Typed'
  <2>1. identity[x.acct] \in Users
    BY <1>0, <1>2 DEF LoginKnown, Assertions, AccountTypes
  <2>2. Resolved(x, identity[x.acct])
    BY <1>2 DEF LoginKnown
  <2> QED
    BY <1>0, <1>2, <2>1, <2>2, ResolvedEffect, RotatedTypes, TypesStay DEF LoginKnown, Typed
<1>3. ASSUME NEW x \in Assertions, NEW trust \in BOOLEAN, NEW active \in BOOLEAN,
             LoginLink(x, trust, active)
      PROVE  Typed'
  <2>1. PICK u \in LinkTargets(x, trust, active) :
            Resolved(x, u) /\ identity' = [identity EXCEPT ![x.acct] = u]
    BY <1>3 DEF LoginLink
  <2>2. u \in Users
    BY DEF LinkTargets, WithEmail
  <2>3. AccountTypes'
    BY <1>0, <1>3, <2>1, <2>2 DEF LoginLink, Resolved, AccountTypes
  <2> QED BY <1>0, <2>1, <2>2, <2>3, ResolvedEffect, RotatedTypes, TypesStay DEF Typed
<1>4. ASSUME NEW x \in Assertions, NEW u \in Users, NEW trust \in BOOLEAN, NEW active \in BOOLEAN,
             NEW i \in Emails \cup {NONE}, NEW e \in Emails,
             LoginSignUp(x, trust, active, i, e, u)
      PROVE  Typed'
  <2>1. users' \in [Users -> User]
    BY <1>0, <1>4, CreateUserEffect DEF LoginSignUp
  <2>2. AccountTypes'
    BY <1>0, <1>4, <2>1 DEF LoginSignUp, Resolved, AccountTypes
  <2>3. Resolved(x, u)
    BY <1>4 DEF LoginSignUp
  <2> QED BY <1>0, <2>2, <2>3, ResolvedEffect, RotatedTypes, TypesStay DEF Typed
<1>5. ASSUME NEW c \in Creds, PasskeyLogin(c) PROVE Typed'
  <2>1. passkeys[c] \in Users
    BY <1>0, <1>5 DEF PasskeyLogin, AccountTypes
  <2>2. Rotated(passkeys[c], Passkey)
    BY <1>0, <1>5, <2>1, CreateSessionRotates DEF PasskeyLogin
  <2> QED BY <1>0, <1>5, <2>2, RotatedTypes, TypesStay DEF PasskeyLogin, Typed
<1>6. ASSUME NEW c \in Creds, NEW u \in Users, NEW e \in Emails, NEW t \in Tokens \cup {0},
             PasskeySignup(u, e, t, c)
      PROVE  Typed'
  <2>1. BootstrapTypes' /\ \E b \in BOOLEAN : CreateUser(u, e, b)
    BY <1>6, PasskeyMethodEffect DEF PasskeySignup
  <2>2. users' \in [Users -> User]
    BY <1>0, <2>1, CreateUserEffect
  <2>3. AccountTypes'
    BY <1>0, <1>6, <2>2 DEF PasskeySignup, AccountTypes
  <2>4. Rotated(u, Passkey)
    BY <1>0, <1>6, CreateSessionRotates DEF PasskeySignup
  <2> QED BY <1>0, <1>6, <2>1, <2>3, <2>4, RotatedTypes, TypesStay DEF PasskeySignup, Typed
<1>7. ASSUME NEW a \in Accts, NEW s \in LiveSessions, LinkIdentity(a, s) PROVE Typed'
  <2>1. sessions[s].user \in Users
    BY <1>0, SessionRows DEF LiveSessions
  <2>2. AccountTypes'
    BY <1>0, <1>7, <2>1 DEF LinkIdentity, AccountTypes
  <2> QED BY <1>0, <1>7, <2>2, TypesStay DEF LinkIdentity, Typed
<1>8. ASSUME NEW u \in Users, NEW c \in Creds, AddPasskey(u, c) PROVE Typed'
  <2>1. AccountTypes'
    BY <1>0, <1>8 DEF AddPasskey, AccountTypes
  <2> QED BY <1>0, <1>8, <2>1, TypesStay DEF AddPasskey, Typed
<1>9. ASSUME NEW u \in Users, NEW c \in Creds, PasskeyDelete(u, c) PROVE Typed'
  <2>1. AccountTypes'
    BY <1>0, <1>9 DEF PasskeyDelete, AccountTypes
  <2> QED BY <1>0, <1>9, <2>1, TypesStay DEF PasskeyDelete, Typed
<1>10. ASSUME NEW u \in Users, NEW a \in Accts, IdentityUnlink(u, a) PROVE Typed'
  <2>1. AccountTypes'
    BY <1>0, <1>10 DEF IdentityUnlink, AccountTypes
  <2>2. SessionTypes'
    BY <1>0, <1>10, EndEnds, EndedTypes DEF IdentityUnlink, RevokeUserProviderSessions
  <2> QED BY <1>0, <1>10, <2>1, <2>2, TypesStay DEF IdentityUnlink, Typed
<1>11. ASSUME PlatformSettingsUpdate PROVE Typed'
  <2>1. AccountTypes'
    BY <1>0, <1>11 DEF PlatformSettingsUpdate, AccountTypes
  <2> QED BY <1>0, <1>11, <2>1, TypesStay DEF PlatformSettingsUpdate, Typed
<1>12. ASSUME NEW u \in Users, UserDelete(u) PROVE Typed'
  <2>1. AccountTypes'
    BY <1>0, <1>12 DEF UserDelete, AccountTypes, User
  <2>2. SessionTypes'
    BY <1>0, <1>12, EndEnds, EndedTypes DEF UserDelete
  <2> QED BY <1>0, <1>12, <2>1, <2>2, TypesStay DEF UserDelete, Typed
<1>13. ASSUME NEW u \in Users, NEW e \in Emails, ScimCreateUser(u, e) PROVE Typed'
  <2>1. users' \in [Users -> User]
    BY <1>0, <1>13, CreateUserEffect DEF ScimCreateUser
  <2>2. AccountTypes'
    BY <1>0, <1>13, <2>1 DEF ScimCreateUser, AccountTypes
  <2> QED BY <1>0, <1>13, <2>2, TypesStay DEF ScimCreateUser, Typed
<1>14. ASSUME NEW gone, EndSessions(gone) PROVE Typed'
  <2>1. SessionTypes'
    BY <1>0, <1>14, EndEnds, EndedTypes DEF EndSessions
  <2> QED BY <1>0, <1>14, <2>1, TypesStay DEF EndSessions, Typed
<1>15. ASSUME Domain PROVE Typed'
  BY <1>0, <1>15, DomainStepTypes, TypesStay DEF DomainsOnly, Typed
<1>16. ASSUME UNCHANGED vars PROVE Typed'
  BY <1>0, <1>16, TypesStay DEF vars, platform, bootstrap, domains, Typed
<1> QED
  BY <1>1, <1>2, <1>3, <1>4, <1>5, <1>6, <1>7, <1>8, <1>9, <1>10, <1>11, <1>12, <1>13,
     <1>14, <1>15, <1>16, EndsAreEndSessions DEF Next, ByProvider, ByPasskey, Methods, Absent

-----------------------------------------------------------------------------
(* The claim of the platform                                               *)

\* Nobody is known before the claim, so whoever is known came after it.
LEMMA KnownAfterClaim ==
    ClaimedOnce => /\ \A u \in Users : users[u].state # "absent" => done
                   /\ DOMAIN sessions # {} => done
  BY DEF ClaimedOnce

\* The first claim is the only one: claims are made while there is none.
LEMMA FirstClaim ==
    ASSUME Typed, ClaimedOnce, ~done, NEW token \in Tokens \cup {0}, SetBootstrapDone(token)
    PROVE  ClaimedOnce'
<1>1. claims \in Seq(Tokens \cup {0}) /\ Len(claims) = 0
  BY DEF Typed, BootstrapTypes, ClaimedOnce
<1>2. Len(Append(claims, token)) = 1
  BY <1>1, AppendProperties
<1> QED BY <1>2 DEF SetBootstrapDone, ClaimedOnce

\* Once the platform is claimed, a step that leaves the claim alone is harmless.
LEMMA ClaimStays ==
    ClaimedOnce /\ UNCHANGED bootstrap /\ (done \/ UNCHANGED <<users, sessions>>) => ClaimedOnce'
  BY DEF ClaimedOnce, bootstrap

LEMMA ResolvedClaims ==
    ASSUME Typed, ClaimedOnce, NEW x \in Assertions, NEW u \in Users, Resolved(x, u)
    PROVE  ClaimedOnce'
<1>1. CASE done
  BY <1>1, ClaimStays DEF Resolved
<1>2. CASE ~done
  <2>1. PICK t \in Tokens \cup {0} : SetBootstrapDone(t)
    BY <1>2 DEF Resolved, Assertions
  <2> QED BY <1>2, <2>1, FirstClaim
<1> QED BY <1>1, <1>2

LEMMA NextClaimedOnce == IInv /\ [Next]_vars => ClaimedOnce'
<1> SUFFICES ASSUME IInv, [Next]_vars PROVE ClaimedOnce'
  OBVIOUS
<1>0. /\ Typed /\ ClaimedOnce
      /\ PlatformTypes /\ BootstrapTypes /\ AccountTypes /\ SessionTypes /\ DomainTypes
  BY DEF IInv, Typed
<1>a. \A u \in Users : Authenticated(u) => done
  BY <1>0, KnownAfterClaim DEF Authenticated
<1>1. ASSUME NEW c \in Configs, Restart(c) PROVE ClaimedOnce'
  BY <1>0, <1>1 DEF Restart, ClaimedOnce
<1>2. ASSUME NEW x \in Assertions, LoginKnown(x) PROVE ClaimedOnce'
  <2>1. identity[x.acct] \in Users
    BY <1>0, <1>2 DEF LoginKnown, Assertions, AccountTypes
  <2> QED BY <1>0, <1>2, <2>1, ResolvedClaims DEF LoginKnown
<1>3. ASSUME NEW x \in Assertions, NEW trust \in BOOLEAN, NEW active \in BOOLEAN,
             LoginLink(x, trust, active)
      PROVE  ClaimedOnce'
  BY <1>0, <1>3, ResolvedClaims DEF LoginLink, LinkTargets, WithEmail
<1>4. ASSUME NEW x \in Assertions, NEW u \in Users, NEW trust \in BOOLEAN, NEW active \in BOOLEAN,
             NEW i \in Emails \cup {NONE}, NEW e \in Emails,
             LoginSignUp(x, trust, active, i, e, u)
      PROVE  ClaimedOnce'
  BY <1>0, <1>4, ResolvedClaims DEF LoginSignUp
<1>5. ASSUME NEW c \in Creds, PasskeyLogin(c) PROVE ClaimedOnce'
  BY <1>0, <1>5, ClaimStays DEF PasskeyLogin
<1>6. ASSUME NEW c \in Creds, NEW u \in Users, NEW e \in Emails, NEW t \in Tokens \cup {0},
             PasskeySignup(u, e, t, c)
      PROVE  ClaimedOnce'
  <2>1. CASE Claims(t) /\ SetBootstrapDone(t)
    BY <1>0, <2>1, FirstClaim DEF Claims
  <2>2. CASE done /\ UNCHANGED bootstrap
    BY <1>0, <2>2, ClaimStays
  <2> QED BY <1>6, <2>1, <2>2 DEF PasskeySignup, PasskeyMethod
<1>7. ASSUME NEW a \in Accts, NEW s \in LiveSessions, LinkIdentity(a, s) PROVE ClaimedOnce'
  BY <1>0, <1>7, ClaimStays DEF LinkIdentity
<1>8. ASSUME NEW u \in Users, NEW c \in Creds, AddPasskey(u, c) PROVE ClaimedOnce'
  BY <1>0, <1>8, ClaimStays DEF AddPasskey
<1>9. ASSUME NEW u \in Users, NEW c \in Creds, PasskeyDelete(u, c) PROVE ClaimedOnce'
  BY <1>0, <1>9, ClaimStays DEF PasskeyDelete
<1>10. ASSUME NEW u \in Users, NEW a \in Accts, IdentityUnlink(u, a) PROVE ClaimedOnce'
  BY <1>0, <1>a, <1>10, ClaimStays DEF IdentityUnlink
<1>11. ASSUME PlatformSettingsUpdate PROVE ClaimedOnce'
  BY <1>0, <1>11, ClaimStays DEF PlatformSettingsUpdate
<1>12. ASSUME NEW u \in Users, UserDelete(u) PROVE ClaimedOnce'
  BY <1>0, <1>12, KnownAfterClaim, ClaimStays DEF UserDelete
<1>13. ASSUME NEW u \in Users, NEW e \in Emails, ScimCreateUser(u, e) PROVE ClaimedOnce'
  BY <1>0, <1>13, ClaimStays DEF ScimCreateUser
<1>14. ASSUME NEW gone, EndSessions(gone) PROVE ClaimedOnce'
  <2>1. Ended(gone)
    BY <1>0, <1>14, EndEnds DEF EndSessions
  <2>2. sessions = <<>> => sessions' = <<>>
    BY <2>1, EmptySeq DEF Ended
  <2> QED BY <1>0, <1>14, <2>2 DEF EndSessions, ClaimedOnce, bootstrap
<1>15. ASSUME Domain PROVE ClaimedOnce'
  BY <1>0, <1>15, DomainStepTypes, ClaimStays DEF DomainsOnly
<1>16. ASSUME UNCHANGED vars PROVE ClaimedOnce'
  BY <1>0, <1>16, ClaimStays DEF vars, bootstrap
<1> QED
  BY <1>1, <1>2, <1>3, <1>4, <1>5, <1>6, <1>7, <1>8, <1>9, <1>10, <1>11, <1>12, <1>13,
     <1>14, <1>15, <1>16, EndsAreEndSessions DEF Next, ByProvider, ByPasskey, Methods, Absent

-----------------------------------------------------------------------------
(* Accounts and sessions                                                   *)

\* Users stay live and linked accounts stay linked.
AccountsKept ==
    /\ \A u \in Users : IsLive(u) => users'[u].state = "live"
    /\ \A a \in Accts : identity[a] # NONE => identity'[a] = identity[a]

\* A rotation for the user the account is now linked to.
LEMMA FollowRotated ==
    ASSUME SessionTypes, SessionsFollowIdentities, AccountsKept,
           NEW u \in Users, NEW via \in Accts \cup {Passkey}, Rotated(u, via),
           users'[u].state = "live", via # Passkey => identity'[via] = u
    PROVE  SessionsFollowIdentities'
<1> SUFFICES ASSUME NEW s \in DOMAIN sessions', sessions'[s].via # NONE
             PROVE  /\ users'[sessions'[s].user].state = "live"
                    /\ sessions'[s].via # Passkey => identity'[sessions'[s].via] = sessions'[s].user
  BY DEF SessionsFollowIdentities, LiveSessions, IsLive
<1>1. CASE sessions'[s].user = u /\ sessions'[s].via = via
  BY <1>1
<1>2. CASE /\ s \in DOMAIN sessions /\ sessions'[s].user = sessions[s].user
           /\ sessions'[s].via = sessions[s].via
  <2>1. sessions[s].user \in Users /\ sessions[s].via \in Accts \cup {Passkey}
    BY <1>2, SessionRows
  <2>2. /\ IsLive(sessions[s].user)
        /\ sessions[s].via # Passkey => identity[sessions[s].via] = sessions[s].user
    BY <1>2 DEF SessionsFollowIdentities, LiveSessions
  <2>3. sessions[s].user # NONE
    BY <2>1, SignInAssumption
  <2> QED BY <1>2, <2>1, <2>2, <2>3 DEF AccountsKept
<1> QED BY <1>1, <1>2 DEF Rotated

\* The end of sessions, when it ends those of users and accounts that changed.
LEMMA FollowEnded ==
    ASSUME SessionTypes, SessionsFollowIdentities, NEW gone, Ended(gone),
           \A s \in LiveSessions \ gone :
              /\ users'[sessions[s].user].state = "live"
              /\ sessions[s].via # Passkey => identity'[sessions[s].via] = sessions[s].user
    PROVE  SessionsFollowIdentities'
<1> SUFFICES ASSUME NEW s \in DOMAIN sessions', sessions'[s].via # NONE
             PROVE  /\ users'[sessions'[s].user].state = "live"
                    /\ sessions'[s].via # Passkey => identity'[sessions'[s].via] = sessions'[s].user
  BY DEF SessionsFollowIdentities, LiveSessions, IsLive
<1>1. /\ s \in DOMAIN sessions /\ sessions'[s].user = sessions[s].user
      /\ sessions'[s].via = sessions[s].via /\ s \notin gone
  BY DEF Ended
<1> QED BY <1>1 DEF LiveSessions

\* A step that ends no session and keeps users and links.
LEMMA FollowKept ==
    ASSUME SessionTypes, SessionsFollowIdentities, AccountsKept, UNCHANGED sessions
    PROVE  SessionsFollowIdentities'
<1> SUFFICES ASSUME NEW s \in DOMAIN sessions, sessions[s].via # NONE
             PROVE  /\ users'[sessions[s].user].state = "live"
                    /\ sessions[s].via # Passkey => identity'[sessions[s].via] = sessions[s].user
  BY DEF SessionsFollowIdentities, LiveSessions, IsLive
<1>1. sessions[s].user \in Users /\ sessions[s].via \in Accts \cup {Passkey}
  BY SessionRows
<1>2. /\ IsLive(sessions[s].user)
      /\ sessions[s].via # Passkey => identity[sessions[s].via] = sessions[s].user
  BY DEF SessionsFollowIdentities, LiveSessions
<1> QED BY <1>1, <1>2, SignInAssumption DEF AccountsKept

\* A sign-in of a live user through an account that is, or becomes, that user's.
LEMMA ResolvedFollows ==
    ASSUME Typed, IdentitiesLive, SessionsFollowIdentities, NEW x \in Assertions, NEW u \in Users,
           Resolved(x, u), identity[x.acct] \in {NONE, u},
           identity' = [identity EXCEPT ![x.acct] = u],
           users'[u].state = "live", \A v \in Users \ {u} : users'[v] = users[v]
    PROVE  IdentitiesLive' /\ SessionsFollowIdentities'
<1>1. SessionTypes /\ AccountTypes /\ x.acct \in Accts /\ u # NONE /\ x.acct # Passkey
  BY SignInAssumption DEF Typed, Assertions
<1>2. /\ identity'[x.acct] = u
      /\ \A a \in Accts \ {x.acct} : identity'[a] = identity[a]
  BY <1>1 DEF AccountTypes
<1>3. \A v \in Users : IsLive(v) => users'[v].state = "live"
  BY DEF IsLive
<1>4. AccountsKept
  BY <1>1, <1>2, <1>3 DEF AccountsKept
<1>5. IdentitiesLive'
  <2> SUFFICES ASSUME NEW a \in Accts, identity'[a] # NONE PROVE users'[identity'[a]].state = "live"
    BY DEF IdentitiesLive, IsLive
  <2>1. CASE a = x.acct
    BY <1>2, <2>1
  <2>2. CASE a # x.acct
    <3>1. identity'[a] = identity[a] /\ identity[a] \in Users
      BY <1>1, <1>2, <2>2 DEF AccountTypes
    <3> QED BY <1>3, <3>1 DEF IdentitiesLive
  <2> QED BY <2>1, <2>2
<1>6. Rotated(u, x.acct)
  BY ResolvedEffect
<1> QED BY <1>1, <1>2, <1>4, <1>5, <1>6, FollowRotated

LEMMA NextAccounts == IInv /\ [Next]_vars => IdentitiesLive' /\ SessionsFollowIdentities'
<1> DEFINE Goal == IdentitiesLive' /\ SessionsFollowIdentities'
<1> SUFFICES ASSUME IInv, [Next]_vars PROVE Goal
  OBVIOUS
<1>0. /\ Typed /\ IdentitiesLive /\ SessionsFollowIdentities
      /\ AccountTypes /\ SessionTypes
  BY DEF IInv, Typed
<1>a. UNCHANGED <<users, identity, sessions>> => Goal
  <2> SUFFICES ASSUME UNCHANGED <<users, identity, sessions>> PROVE Goal
    OBVIOUS
  <2>1. AccountsKept
    BY DEF AccountsKept, IsLive
  <2>2. IdentitiesLive'
    BY <1>0 DEF IdentitiesLive, IsLive
  <2> QED BY <1>0, <2>1, <2>2, FollowKept
<1>1. ASSUME NEW c \in Configs, Restart(c) PROVE Goal
  BY <1>a, <1>1 DEF Restart
<1>2. ASSUME NEW x \in Assertions, LoginKnown(x) PROVE Goal
  <2>1. x.acct \in Accts /\ identity[x.acct] \in Users
    BY <1>0, <1>2 DEF LoginKnown, Assertions, AccountTypes
  <2>2. identity' = [identity EXCEPT ![x.acct] = identity[x.acct]]
    BY <1>0, <1>2, <2>1 DEF LoginKnown, AccountTypes
  <2>3. /\ Resolved(x, identity[x.acct])
        /\ users'[identity[x.acct]].state = "live" /\ users' = users
    BY <1>2 DEF LoginKnown, IsLive
  <2> QED BY <1>0, <2>1, <2>2, <2>3, ResolvedFollows
<1>3. ASSUME NEW x \in Assertions, NEW trust \in BOOLEAN, NEW active \in BOOLEAN,
             LoginLink(x, trust, active)
      PROVE  Goal
  <2>1. PICK u \in LinkTargets(x, trust, active) :
            Resolved(x, u) /\ identity' = [identity EXCEPT ![x.acct] = u]
    BY <1>3 DEF LoginLink
  <2>2. u \in Users /\ users'[u].state = "live" /\ users' = users
    BY <1>3 DEF LoginLink, LinkTargets, WithEmail, IsLive
  <2> QED BY <1>0, <1>3, <2>1, <2>2, ResolvedFollows DEF LoginLink
<1>4. ASSUME NEW x \in Assertions, NEW u \in Users, NEW trust \in BOOLEAN, NEW active \in BOOLEAN,
             NEW i \in Emails \cup {NONE}, NEW e \in Emails,
             LoginSignUp(x, trust, active, i, e, u)
      PROVE  Goal
  <2>1. /\ users'[u].state = "live"
        /\ \A v \in Users \ {u} : users'[v] = users[v]
    BY <1>0, <1>4, CreateUserEffect DEF LoginSignUp
  <2> QED BY <1>0, <1>4, <2>1, ResolvedFollows DEF LoginSignUp
<1>5. ASSUME NEW c \in Creds, PasskeyLogin(c) PROVE Goal
  <2>1. passkeys[c] \in Users /\ users'[passkeys[c]].state = "live"
    BY <1>0, <1>5 DEF PasskeyLogin, AccountTypes, IsLive
  <2>2. Rotated(passkeys[c], Passkey)
    BY <1>0, <1>5, <2>1, CreateSessionRotates DEF PasskeyLogin
  <2>3. AccountsKept /\ IdentitiesLive'
    BY <1>0, <1>5 DEF PasskeyLogin, AccountsKept, IdentitiesLive, IsLive
  <2> QED BY <1>0, <2>1, <2>2, <2>3, FollowRotated
<1>6. ASSUME NEW c \in Creds, NEW u \in Users, NEW e \in Emails, NEW t \in Tokens \cup {0},
             PasskeySignup(u, e, t, c)
      PROVE  Goal
  <2>1. PICK b \in BOOLEAN : CreateUser(u, e, b)
    BY <1>0, <1>6, PasskeyMethodEffect DEF PasskeySignup
  <2>2. /\ users'[u].state = "live"
        /\ \A v \in Users \ {u} : users'[v] = users[v]
    BY <1>0, <2>1, CreateUserEffect
  <2>3. Rotated(u, Passkey) /\ identity' = identity
    BY <1>0, <1>6, CreateSessionRotates DEF PasskeySignup
  <2>4. AccountsKept
    BY <2>2, <2>3 DEF AccountsKept, IsLive
  <2>5. IdentitiesLive'
    BY <1>0, <2>2, <2>3 DEF IdentitiesLive, IsLive, AccountTypes
  <2> QED BY <1>0, <2>2, <2>3, <2>4, <2>5, FollowRotated
<1>7. ASSUME NEW a \in Accts, NEW s \in LiveSessions, LinkIdentity(a, s) PROVE Goal
  <2>1. AccountsKept
    BY <1>0, <1>7 DEF LinkIdentity, AccountsKept, AccountTypes, IsLive
  <2>2. IdentitiesLive'
    BY <1>0, <1>7 DEF LinkIdentity, IdentitiesLive, AccountTypes, IsLive
  <2> QED BY <1>0, <1>7, <2>1, <2>2, FollowKept DEF LinkIdentity
<1>8. ASSUME NEW u \in Users, NEW c \in Creds, AddPasskey(u, c) PROVE Goal
  BY <1>a, <1>8 DEF AddPasskey
<1>9. ASSUME NEW u \in Users, NEW c \in Creds, PasskeyDelete(u, c) PROVE Goal
  BY <1>a, <1>9 DEF PasskeyDelete
<1>10. ASSUME NEW u \in Users, NEW a \in Accts, IdentityUnlink(u, a) PROVE Goal
  <2> DEFINE gone == ProviderSessions(u, ProviderOf[a])
  <2>1. Ended(gone)
    BY <1>0, <1>10, EndEnds DEF IdentityUnlink, RevokeUserProviderSessions
  <2>2. /\ identity[a] = u /\ users' = users /\ identity'[a] = NONE
        /\ \A b \in Accts \ {a} : identity'[b] = identity[b]
    BY <1>0, <1>10 DEF IdentityUnlink, AccountTypes
  <2>3. ASSUME NEW s \in LiveSessions \ gone
        PROVE  /\ users'[sessions[s].user].state = "live"
               /\ sessions[s].via # Passkey => identity'[sessions[s].via] = sessions[s].user
    <3>1. /\ IsLive(sessions[s].user)
          /\ sessions[s].via # Passkey => identity[sessions[s].via] = sessions[s].user
      BY <1>0 DEF SessionsFollowIdentities
    <3>2. sessions[s].via \in Accts \cup {Passkey}
      BY <1>0, SessionRows DEF LiveSessions
    <3>3. sessions[s].via # a
      BY <2>2, <3>1, SignInAssumption DEF ProviderSessions, SessionsOf
    <3> QED BY <2>2, <3>1, <3>2, <3>3 DEF IsLive
  <2>4. IdentitiesLive'
    BY <1>0, <2>2 DEF IdentitiesLive, IsLive
  <2> HIDE DEF gone
  <2> QED BY <1>0, <2>1, <2>3, <2>4, FollowEnded
<1>11. ASSUME PlatformSettingsUpdate PROVE Goal
  BY <1>a, <1>11 DEF PlatformSettingsUpdate
<1>12. ASSUME NEW u \in Users, UserDelete(u) PROVE Goal
  <2>1. Ended(SessionsOf(u))
    BY <1>0, <1>12, EndEnds DEF UserDelete
  <2>2. /\ \A v \in Users \ {u} : users'[v] = users[v]
        /\ \A a \in Accts : identity'[a] = IF identity[a] = u THEN NONE ELSE identity[a]
    BY <1>0, <1>12 DEF UserDelete, AccountTypes
  <2>3. ASSUME NEW s \in LiveSessions \ SessionsOf(u)
        PROVE  /\ users'[sessions[s].user].state = "live"
               /\ sessions[s].via # Passkey => identity'[sessions[s].via] = sessions[s].user
    <3>1. /\ IsLive(sessions[s].user)
          /\ sessions[s].via # Passkey => identity[sessions[s].via] = sessions[s].user
      BY <1>0 DEF SessionsFollowIdentities
    <3>2. sessions[s].user \in Users \ {u} /\ sessions[s].via \in Accts \cup {Passkey}
      BY <1>0, SessionRows DEF LiveSessions, SessionsOf
    <3> QED BY <2>2, <3>1, <3>2 DEF IsLive
  <2>4. IdentitiesLive'
    BY <1>0, <2>2 DEF IdentitiesLive, IsLive, AccountTypes
  <2> QED BY <1>0, <2>1, <2>3, <2>4, FollowEnded
<1>13. ASSUME NEW u \in Users, NEW e \in Emails, ScimCreateUser(u, e) PROVE Goal
  <2>1. /\ users'[u].state = "live" /\ users[u].state = "absent"
        /\ \A v \in Users \ {u} : users'[v] = users[v]
        /\ identity' = identity /\ sessions' = sessions
    BY <1>0, <1>13, CreateUserEffect DEF ScimCreateUser
  <2>2. AccountsKept
    BY <2>1 DEF AccountsKept, IsLive
  <2>3. IdentitiesLive'
    BY <1>0, <2>1 DEF IdentitiesLive, IsLive, AccountTypes
  <2> QED BY <1>0, <2>1, <2>2, <2>3, FollowKept
<1>14. ASSUME NEW gone, EndSessions(gone) PROVE Goal
  <2>1. Ended(gone) /\ UNCHANGED <<users, identity>>
    BY <1>0, <1>14, EndEnds DEF EndSessions
  <2>2. \A s \in LiveSessions \ gone :
           /\ users'[sessions[s].user].state = "live"
           /\ sessions[s].via # Passkey => identity'[sessions[s].via] = sessions[s].user
    BY <1>0, <2>1 DEF SessionsFollowIdentities, IsLive
  <2>3. IdentitiesLive'
    BY <1>0, <2>1 DEF IdentitiesLive, IsLive
  <2> QED BY <1>0, <2>1, <2>2, <2>3, FollowEnded
<1>15. ASSUME Domain PROVE Goal
  BY <1>0, <1>a, <1>15, DomainStepTypes DEF DomainsOnly
<1>16. ASSUME UNCHANGED vars PROVE Goal
  BY <1>a, <1>16 DEF vars
<1> HIDE DEF Goal
<1> QED
  BY <1>1, <1>2, <1>3, <1>4, <1>5, <1>6, <1>7, <1>8, <1>9, <1>10, <1>11, <1>12, <1>13,
     <1>14, <1>15, <1>16, EndsAreEndSessions DEF Next, ByProvider, ByPasskey, Methods, Absent

-----------------------------------------------------------------------------
(* Domains                                                                 *)

LEMMA DomainStepInv == Typed /\ DomainInv /\ Domain => DomainInv'
<1> SUFFICES ASSUME Typed, DomainInv, Domain PROVE DomainInv'
  OBVIOUS
<1>0. /\ rows \in Seq(DomainRow) /\ Len(rows) \in Nat
      /\ DOMAIN rows = 1..Len(rows)
      /\ \A n \in 1..Len(rows) : rows[n] \in DomainRow
      /\ checks \subseteq 1..Len(rows)
      /\ OneRowPerOrg /\ OneVerified /\ VerifiedProved
  BY LenProperties, ElementOfSeq DEF Typed, DomainTypes, DomainInv
<1>1. ASSUME NEW o \in Orgs, DomainAdd(o) PROVE DomainInv'
  <2> DEFINE new == [org |-> o, state |-> "pending"]
             k == Len(rows) + 1
  <2>1. new \in DomainRow
    BY DEF DomainRow
  <2>2. /\ Append(rows, new) \in Seq(DomainRow) /\ Len(Append(rows, new)) = k
        /\ \A n \in 1..Len(rows) : Append(rows, new)[n] = rows[n]
        /\ Append(rows, new)[k] = new
    BY <1>0, <2>1, AppendProperties
  <2>3. /\ DOMAIN rows' = 1..k /\ rows'[k].org = o /\ rows'[k].state = "pending"
        /\ \A n \in 1..Len(rows) : rows'[n] = rows[n]
        /\ checks' = checks /\ proved' = proved
    BY <1>1, <2>2, LenProperties DEF DomainAdd
  <2>4. \A n \in 1..Len(rows) : rows[n].org = o => rows[n].state = "removed"
    BY <1>0, <1>1 DEF DomainAdd
  <2>5. \A n \in 1..k : n # k => n \in 1..Len(rows)
    BY <1>0
  <2>6. k \notin checks
    BY <1>0
  <2> HIDE DEF k
  <2>7. OneRowPerOrg'
    BY <1>0, <2>3, <2>4, <2>5 DEF OneRowPerOrg
  <2>8. OneVerified'
    BY <1>0, <2>3, <2>5 DEF OneVerified
  <2>9. VerifiedProved'
    BY <1>0, <2>3, <2>5, <2>6 DEF VerifiedProved
  <2> QED BY <2>7, <2>8, <2>9 DEF DomainInv
<1>2. ASSUME NEW r \in 1..MaxRows, DomainCheck(r) PROVE DomainInv'
  BY <1>0, <1>2 DEF DomainCheck, DomainInv, OneRowPerOrg, OneVerified, VerifiedProved
<1>3. ASSUME NEW r \in 1..MaxRows, DomainMark(r) PROVE DomainInv'
  <2>1. CASE rows' = rows
    BY <1>0, <1>3, <2>1 DEF DomainMark, DomainInv, OneRowPerOrg, OneVerified, VerifiedProved
  <2>2. CASE VerifiedOnce(r) /\ rows[r].state = "pending"
    <3>1. r \in 1..Len(rows) /\ r \in proved
      BY <1>0, <1>3, <2>2 DEF DomainMark, VerifiedProved
    <3>2. /\ DOMAIN rows' = 1..Len(rows) /\ rows'[r].state = "verified" /\ rows'[r].org = rows[r].org
          /\ \A n \in 1..Len(rows) \ {r} : rows'[n] = rows[n]
          /\ checks' \subseteq checks /\ proved' = proved
      BY <1>0, <1>3, <2>2, <3>1 DEF DomainMark, MarkOrgDomainVerified, DomainRow
    <3>3. \A n \in 1..Len(rows) : rows[n].state # "verified"
      <4> SUFFICES ASSUME NEW n \in 1..Len(rows), rows[n].state = "verified" PROVE FALSE
        OBVIOUS
      <4>1. rows[n].org \in Orgs
        BY <1>0 DEF DomainRow
      <4>2. rows[n].org = rows[r].org
        BY <1>0, <2>2, <4>1 DEF VerifiedOnce, TakenFrom, VerifiedBy
      <4> QED BY <1>0, <2>2, <3>1, <4>2 DEF OneRowPerOrg
    <3>4. OneRowPerOrg'
      BY <1>0, <2>2, <3>1, <3>2 DEF OneRowPerOrg
    <3>5. OneVerified'
      BY <3>2, <3>3 DEF OneVerified
    <3>6. VerifiedProved'
      BY <1>0, <3>1, <3>2, <3>3 DEF VerifiedProved
    <3> QED BY <3>4, <3>5, <3>6 DEF DomainInv
  <2>3. rows' = rows \/ (VerifiedOnce(r) /\ rows[r].state = "pending")
    <3>1. ASSUME VerifiedOnce(r), rows[r].state # "pending" PROVE rows' = rows
      <4>1. /\ rows' = [n \in DOMAIN rows |-> rows[n]]
        BY <1>3, <3>1 DEF DomainMark, MarkOrgDomainVerified
      <4> QED BY <1>0, <4>1, LenProperties
    <3> QED BY <1>3, <3>1 DEF DomainMark
  <2> QED BY <2>1, <2>2, <2>3
<1>4. ASSUME NEW r \in 1..MaxRows, DomainRemove(r) PROVE DomainInv'
  <2>1. /\ r \in 1..Len(rows) /\ DOMAIN rows' = 1..Len(rows)
        /\ rows'[r].state = "removed"
        /\ \A n \in 1..Len(rows) \ {r} : rows'[n] = rows[n]
        /\ checks' = checks /\ proved' = proved \ {r}
    BY <1>0, <1>4, LenProperties DEF DomainRemove, DomainRow
  <2> QED BY <1>0, <2>1 DEF DomainInv, OneRowPerOrg, OneVerified, VerifiedProved
<1> QED BY <1>1, <1>2, <1>3, <1>4 DEF Domain

LEMMA NextDomains == IInv /\ [Next]_vars => DomainInv'
<1> SUFFICES ASSUME IInv, [Next]_vars PROVE DomainInv'
  OBVIOUS
<1>1. CASE Domain
  BY <1>1, DomainStepInv DEF IInv
<1>2. CASE UNCHANGED domains
  BY <1>2 DEF IInv, DomainInv, OneRowPerOrg, OneVerified, VerifiedProved, domains
<1>3. (\E c \in Configs : Restart(c)) => UNCHANGED domains
  BY DEF Restart
<1>4. ByProvider => UNCHANGED domains
  BY DEF ByProvider, LoginKnown, LoginLink, LoginSignUp, Resolved
<1>5. ByPasskey => UNCHANGED domains
  BY DEF ByPasskey, PasskeyLogin, PasskeySignup
<1>6. Methods => UNCHANGED domains
  BY DEF Methods, LinkIdentity, AddPasskey, PasskeyDelete, IdentityUnlink, PlatformSettingsUpdate,
         UserDelete, ScimCreateUser
<1>7. Ends => UNCHANGED domains
  BY EndsAreEndSessions DEF EndSessions
<1>8. UNCHANGED vars => UNCHANGED domains
  BY DEF vars, domains
<1> QED BY <1>1, <1>2, <1>3, <1>4, <1>5, <1>6, <1>7, <1>8 DEF Next

-----------------------------------------------------------------------------
(* The theorems                                                            *)

LEMMA InitInv == Init => IInv
<1> SUFFICES ASSUME Init PROVE IInv
  OBVIOUS
<1>1. Typed
  BY InitTypes
<1>2. /\ Len(claims) = 0 /\ DOMAIN sessions = {} /\ DOMAIN rows = {}
  BY EmptySeq DEF Init
<1>3. ClaimedOnce
  BY <1>2 DEF Init, ClaimedOnce
<1>4. IdentitiesLive /\ SessionsFollowIdentities
  BY <1>2 DEF Init, IdentitiesLive, SessionsFollowIdentities, LiveSessions
<1>5. DomainInv
  BY <1>2 DEF DomainInv, OneRowPerOrg, OneVerified, VerifiedProved
<1> QED BY <1>1, <1>3, <1>4, <1>5 DEF IInv

LEMMA NextInv == IInv /\ [Next]_vars => IInv'
<1>1. IInv => Typed
  BY DEF IInv
<1> QED BY <1>1, NextTypes, NextClaimedOnce, NextAccounts, NextDomains DEF IInv

LEMMA Invariance == Spec => []IInv
<1> QED BY InitInv, NextInv, PTL DEF Spec

\* At most one row is verified, so their number is at most one.
LEMMA InvTypeOK == IInv => TypeOK
<1> SUFFICES ASSUME IInv PROVE TypeOK
  OBVIOUS
<1> DEFINE V == {r \in DOMAIN rows : rows[r].state = "verified"}
<1>1. V = {} \/ \E r \in V : V = {r}
  BY DEF IInv, DomainInv, OneVerified
<1>2. Cardinality(V) = 0 \/ Cardinality(V) = 1
  BY <1>1, FS_EmptySet, FS_Singleton
<1>3. Cardinality(V) <= 1
  BY <1>2
<1> QED
  BY <1>3 DEF IInv, Typed, PlatformTypes, BootstrapTypes, AccountTypes, SessionTypes, DomainTypes, TypeOK

\* Every table holds rows of its shape, and one organisation at most has the
\* domain verified, however additions, DNS lookups and removals overlap
\* (org_domains.go; the unique index of migration 0036).
THEOREM TypesKept == Spec => []TypeOK
<1> QED BY Invariance, InvTypeOK, PTL

\* The platform is claimed once, and nobody has an account or a session before
\* (bootstrap.go, resolve.go, passkey_resolve.go).
THEOREM PlatformClaimedOnce == Spec => []ClaimedOnce
<1>1. IInv => ClaimedOnce
  BY DEF IInv
<1> QED BY Invariance, <1>1, PTL

\* A live session made through an account is of the user the account is linked
\* to, after any unlinking, deletion and new link (identity.unlink, user.delete).
THEOREM SessionsFollow == Spec => []SessionsFollowIdentities
<1>1. IInv => SessionsFollowIdentities
  BY DEF IInv
<1> QED BY Invariance, <1>1, PTL

-----------------------------------------------------------------------------
(* Steps                                                                   *)

\* The token, or the address, that a claim is recorded with.
InForce ==
    \/ claims' = Append(claims, 0) /\ config.admins # {}
    \/ claims' = Append(claims, EnvToken) /\ config.env
    \/ claims' = Append(claims, stored) /\ ~config.env /\ stored # 0

LEMMA TokenInForce ==
    ASSUME NEW t, Claims(t), SetBootstrapDone(t) PROVE InForce
  BY DEF Claims, SetBootstrapDone, ExpectedToken, InForce

LEMMA ResolvedInForce ==
    ASSUME NEW x \in Assertions, NEW u, Resolved(x, u), claims' # claims PROVE InForce
<1>1. ~done
  BY DEF Resolved, bootstrap
<1>2. CASE IsAdmin(x.acct, x.email, x.ver)
  BY <1>1, <1>2 DEF Resolved, SetBootstrapDone, IsAdmin, InForce
<1>3. CASE ~IsAdmin(x.acct, x.email, x.ver)
  BY <1>1, <1>3, TokenInForce DEF Resolved, Gate
<1> QED BY <1>2, <1>3

LEMMA NextClaims == [Next]_vars /\ claims' # claims => InForce
<1> SUFFICES ASSUME [Next]_vars, claims' # claims PROVE InForce
  OBVIOUS
<1>1. (\E c \in Configs : Restart(c)) => FALSE
  BY DEF Restart
<1>2. ByProvider => InForce
  BY ResolvedInForce DEF ByProvider, LoginKnown, LoginLink, LoginSignUp
<1>3. ASSUME NEW c \in Creds, PasskeyLogin(c) PROVE FALSE
  BY <1>3 DEF PasskeyLogin, bootstrap
<1>4. ASSUME NEW c \in Creds, NEW u, NEW e, NEW t, PasskeySignup(u, e, t, c) PROVE InForce
  BY <1>4, TokenInForce DEF PasskeySignup, PasskeyMethod, bootstrap
<1>5. Methods => FALSE
  BY DEF Methods, LinkIdentity, AddPasskey, PasskeyDelete, IdentityUnlink, PlatformSettingsUpdate,
         UserDelete, ScimCreateUser, bootstrap
<1>6. Ends => FALSE
  BY EndsAreEndSessions DEF EndSessions, bootstrap
<1>7. Domain => FALSE
  BY DEF Domain, DomainAdd, DomainCheck, DomainMark, DomainRemove, DomainsOnly, bootstrap
<1>8. UNCHANGED vars => FALSE
  BY DEF vars
<1> QED BY <1>1, <1>2, <1>3, <1>4, <1>5, <1>6, <1>7, <1>8 DEF Next, ByPasskey

\* The platform is claimed with the token in force at that moment or by an
\* address of the settings (bootstrap.go: "only the latest logged URL works").
THEOREM ClaimedInForce == Spec => ClaimByTokenInForce
<1>1. [Next]_vars =>
        [claims' # claims =>
            \/ claims' = Append(claims, 0) /\ config.admins # {}
            \/ claims' = Append(claims, EnvToken) /\ config.env
            \/ claims' = Append(claims, stored) /\ ~config.env /\ stored # 0]_vars
  BY NextClaims DEF InForce
<1> QED BY <1>1, PTL DEF Spec, ClaimByTokenInForce

\* An account that is linked comes with proof of control of the user.
Controlled(a) ==
    LET u == identity'[a]
    IN  identity[a] = NONE /\ u # NONE /\ IsLive(u) =>
          \/ SessionsOf(u) # {} /\ sessions' = sessions
          \/ OwnerOf[a] = NONE /\ users[u].confirmed
          \/ /\ users[u].email \in OnDomain
             /\ \E r \in proved : rows[r].org = OwnerOf[a] /\ rows[r].state = "verified"

\* An organisation that vouches for an address proved the domain by DNS.
LEMMA VouchesProved ==
    ASSUME Typed, VerifiedProved, NEW a \in Accts, NEW e \in Emails, OrgVouches(a, e)
    PROVE  /\ e \in OnDomain
           /\ \E r \in proved : rows[r].org = OwnerOf[a] /\ rows[r].state = "verified"
<1>1. e \in OnDomain /\ \E r \in DOMAIN rows : rows[r].state = "verified"
  BY DEF OrgVouches, VerifiedOrgForEmail
<1>2. PICK r \in DOMAIN rows : rows[r].state = "verified" /\ rows[r].org = OwnerOf[a]
  BY <1>1 DEF OrgVouches, VerifiedOrgForEmail
<1>3. r \in proved
  BY <1>2 DEF VerifiedProved
<1> QED BY <1>1, <1>2, <1>3

LEMMA NextProof == IInv /\ [Next]_vars => \A a \in Accts : Controlled(a)
<1> SUFFICES ASSUME IInv, [Next]_vars, NEW a \in Accts PROVE Controlled(a)
  OBVIOUS
<1>0. Typed /\ AccountTypes /\ VerifiedProved /\ IdentitiesLive
  BY DEF IInv, Typed, DomainInv
<1>a. identity'[a] = identity[a] \/ identity'[a] = NONE => Controlled(a)
  BY DEF Controlled
<1>1. ASSUME NEW c \in Configs, Restart(c) PROVE Controlled(a)
  BY <1>a, <1>1 DEF Restart
<1>2. ASSUME NEW x \in Assertions, LoginKnown(x) PROVE Controlled(a)
  BY <1>a, <1>2 DEF LoginKnown
<1>3. ASSUME NEW x \in Assertions, NEW trust \in BOOLEAN, NEW active \in BOOLEAN,
             LoginLink(x, trust, active)
      PROVE  Controlled(a)
  <2>1. PICK u \in LinkTargets(x, trust, active) : identity' = [identity EXCEPT ![x.acct] = u]
    BY <1>3 DEF LoginLink
  <2>2. /\ x.acct \in Accts /\ x.email \in Emails /\ u \in Users /\ users[u].email = x.email
    BY DEF Assertions, LinkTargets, WithEmail
  <2>3. CASE a # x.acct
    BY <1>0, <1>a, <2>1, <2>3 DEF AccountTypes
  <2>4. CASE a = x.acct
    <3>1. identity'[a] = u
      BY <1>0, <2>1, <2>4 DEF AccountTypes
    <3>2. CASE OrgVouches(a, x.email)
      BY <1>0, <2>2, <3>1, <3>2, VouchesProved DEF Controlled
    <3>3. CASE OwnerOf[a] = NONE /\ users[u].confirmed
      BY <3>1, <3>3 DEF Controlled
    <3> QED BY <2>4, <3>2, <3>3 DEF LinkTargets, Trusted
  <2> QED BY <2>3, <2>4
<1>4. ASSUME NEW x \in Assertions, NEW u \in Users, NEW trust \in BOOLEAN, NEW active \in BOOLEAN,
             NEW i \in Emails \cup {NONE}, NEW e \in Emails,
             LoginSignUp(x, trust, active, i, e, u)
      PROVE  Controlled(a)
  <2>1. users[u].state = "absent" /\ identity' = [identity EXCEPT ![x.acct] = u]
    BY <1>4 DEF LoginSignUp, CreateUser
  <2>2. CASE a # x.acct
    BY <1>0, <1>a, <2>1, <2>2 DEF AccountTypes
  <2>3. CASE a = x.acct
    BY <1>0, <2>1, <2>3 DEF AccountTypes, Controlled, IsLive
  <2> QED BY <2>2, <2>3
<1>5. ByPasskey => Controlled(a)
  BY <1>a DEF ByPasskey, PasskeyLogin, PasskeySignup
<1>6. ASSUME NEW b \in Accts, NEW s \in LiveSessions, LinkIdentity(b, s) PROVE Controlled(a)
  <2>1. s \in SessionsOf(sessions[s].user) /\ sessions' = sessions
    BY <1>6 DEF LinkIdentity, SessionsOf
  <2>2. CASE a # b
    BY <1>0, <1>a, <1>6, <2>2 DEF LinkIdentity, AccountTypes
  <2>3. CASE a = b
    BY <1>0, <1>6, <2>1, <2>3 DEF LinkIdentity, AccountTypes, Controlled
  <2> QED BY <2>2, <2>3
<1>7. ASSUME NEW u \in Users, NEW c \in Creds, AddPasskey(u, c) \/ PasskeyDelete(u, c) PROVE Controlled(a)
  BY <1>a, <1>7 DEF AddPasskey, PasskeyDelete
<1>8. ASSUME NEW u \in Users, NEW b \in Accts, IdentityUnlink(u, b) PROVE Controlled(a)
  BY <1>0, <1>a, <1>8 DEF IdentityUnlink, AccountTypes
<1>9. PlatformSettingsUpdate => Controlled(a)
  BY <1>a DEF PlatformSettingsUpdate
<1>10. ASSUME NEW u \in Users, UserDelete(u) PROVE Controlled(a)
  BY <1>a, <1>10 DEF UserDelete
<1>11. ASSUME NEW u \in Users, NEW e \in Emails, ScimCreateUser(u, e) PROVE Controlled(a)
  BY <1>a, <1>11 DEF ScimCreateUser
<1>12. Ends => Controlled(a)
  BY <1>a, EndsAreEndSessions DEF EndSessions
<1>13. Domain => Controlled(a)
  BY <1>a DEF Domain, DomainAdd, DomainCheck, DomainMark, DomainRemove, DomainsOnly
<1>14. UNCHANGED vars => Controlled(a)
  BY <1>a DEF vars
<1> QED
  BY <1>1, <1>2, <1>3, <1>4, <1>5, <1>6, <1>7, <1>8, <1>9, <1>10, <1>11, <1>12, <1>13, <1>14
     DEF Next, ByProvider, Methods, Absent

\* An account becomes a way in for an existing user only with proof of control
\* of that user (resolve.go, org_domains.go).
THEOREM ControlProved == Spec => ProvedControl
<1>1. IInv /\ [Next]_vars =>
        [\A a \in Accts :
            LET u == identity'[a]
            IN  identity[a] = NONE /\ u # NONE /\ IsLive(u) =>
                  \/ SessionsOf(u) # {} /\ sessions' = sessions
                  \/ OwnerOf[a] = NONE /\ users[u].confirmed
                  \/ /\ users[u].email \in OnDomain
                     /\ \E r \in proved : rows[r].org = OwnerOf[a] /\ rows[r].state = "verified"]_vars
  BY NextProof DEF Controlled
<1> QED BY <1>1, Invariance, PTL DEF Spec, ProvedControl

\* Nobody but u loses a way in.
OthersKept(u) ==
    /\ \A a \in Accts : identity[a] \notin {NONE, u} => identity'[a] = identity[a]
    /\ \A c \in Creds : passkeys[c] \notin {NONE, u} => passkeys'[c] = passkeys[c]
    /\ passkeysOn => passkeysOn'

LEMMA WaysInKept ==
    ASSUME NEW v, OthersKept(v), NEW u \in Users, u # v
    PROVE  WaysIn(u) \subseteq WaysIn(u)'
<1>1. u # NONE
  BY SignInAssumption
<1> QED BY <1>1 DEF OthersKept, WaysIn

\* Somebody without a way in has no sign-in method to count.
LEMMA NoWayNoMethod ==
    ASSUME NEW u, WaysIn(u)' = {}, UNCHANGED passkeysOn
    PROVE  SignInMethodCount(u, identity', passkeys') = 0
<1>1. Identities(u, identity') = {}
  BY DEF WaysIn, Identities
<1>2. passkeysOn => PasskeysOf(u, passkeys') = {}
  BY DEF WaysIn, PasskeysOf
<1> QED BY <1>1, <1>2, FS_EmptySet DEF SignInMethodCount

\* u keeps a way in, is gone, or passkeys were turned off for everyone.
KeepsWay(u) ==
    WaysIn(u) # {} /\ WaysIn(u)' = {} => ~IsLive(u)' \/ (passkeysOn /\ ~passkeysOn')

LEMMA NextWays == Typed /\ [Next]_vars => \A u \in Users : KeepsWay(u)
<1> SUFFICES ASSUME Typed, [Next]_vars, NEW u \in Users PROVE KeepsWay(u)
  OBVIOUS
<1>0. AccountTypes /\ NONE \notin Users
  BY SignInAssumption DEF Typed
<1>a. ASSUME NEW v, OthersKept(v), u # v PROVE KeepsWay(u)
  BY <1>a, WaysInKept DEF KeepsWay
<1>b. OthersKept(NONE) => KeepsWay(u)
  BY <1>0, <1>a
<1>c. UNCHANGED <<identity, passkeys, passkeysOn>> => KeepsWay(u)
  BY <1>b DEF OthersKept
<1>1. ASSUME NEW c \in Configs, Restart(c) PROVE KeepsWay(u)
  BY <1>c, <1>1 DEF Restart
<1>2. ASSUME NEW x \in Assertions, LoginKnown(x) PROVE KeepsWay(u)
  BY <1>c, <1>2 DEF LoginKnown, Resolved
<1>3. ASSUME NEW x \in Assertions, NEW trust \in BOOLEAN, NEW active \in BOOLEAN,
             LoginLink(x, trust, active)
      PROVE  KeepsWay(u)
  BY <1>0, <1>b, <1>3 DEF LoginLink, Resolved, OthersKept, AccountTypes
<1>4. ASSUME NEW x \in Assertions, NEW v \in Users, NEW trust \in BOOLEAN, NEW active \in BOOLEAN,
             NEW i \in Emails \cup {NONE}, NEW e \in Emails,
             LoginSignUp(x, trust, active, i, e, v)
      PROVE  KeepsWay(u)
  BY <1>0, <1>b, <1>4 DEF LoginSignUp, Resolved, OthersKept, AccountTypes
<1>5. ASSUME NEW c \in Creds, PasskeyLogin(c) PROVE KeepsWay(u)
  BY <1>c, <1>5 DEF PasskeyLogin
<1>6. ASSUME NEW c \in Creds, NEW v \in Users, NEW e \in Emails, NEW t \in Tokens \cup {0},
             PasskeySignup(v, e, t, c)
      PROVE  KeepsWay(u)
  BY <1>0, <1>b, <1>6 DEF PasskeySignup, OthersKept, AccountTypes
<1>7. ASSUME NEW a \in Accts, NEW s \in LiveSessions, LinkIdentity(a, s) PROVE KeepsWay(u)
  BY <1>0, <1>b, <1>7 DEF LinkIdentity, OthersKept, AccountTypes
<1>8. ASSUME NEW v \in Users, NEW c \in Creds, AddPasskey(v, c) PROVE KeepsWay(u)
  BY <1>0, <1>b, <1>8 DEF AddPasskey, OthersKept, AccountTypes
<1>9. ASSUME NEW v \in Users, NEW c \in Creds, PasskeyDelete(v, c) PROVE KeepsWay(u)
  <2>1. OthersKept(v)
    BY <1>0, <1>9 DEF PasskeyDelete, PasskeysOf, OthersKept, AccountTypes
  <2>2. SignInMethodCount(v, identity', passkeys') >= 1 /\ UNCHANGED passkeysOn
    BY <1>9 DEF PasskeyDelete
  <2>3. WaysIn(v)' # {}
    BY <2>2, NoWayNoMethod
  <2>4. CASE u = v
    BY <2>3, <2>4 DEF KeepsWay
  <2>5. CASE u # v
    BY <1>a, <2>1, <2>5
  <2> QED BY <2>4, <2>5
<1>10. ASSUME NEW v \in Users, NEW a \in Accts, IdentityUnlink(v, a) PROVE KeepsWay(u)
  <2>1. OthersKept(v)
    BY <1>0, <1>10 DEF IdentityUnlink, OthersKept, AccountTypes
  <2>2. SignInMethodCount(v, identity', passkeys') >= 1 /\ UNCHANGED passkeysOn
    BY <1>10 DEF IdentityUnlink
  <2>3. WaysIn(v)' # {}
    BY <2>2, NoWayNoMethod
  <2>4. CASE u = v
    BY <2>3, <2>4 DEF KeepsWay
  <2>5. CASE u # v
    BY <1>a, <2>1, <2>5
  <2> QED BY <2>4, <2>5
<1>11. ASSUME PlatformSettingsUpdate PROVE KeepsWay(u)
  <2>1. CASE passkeysOn
    BY <1>0, <1>11, <2>1 DEF PlatformSettingsUpdate, KeepsWay
  <2>2. CASE ~passkeysOn
    BY <1>b, <1>11, <2>2 DEF PlatformSettingsUpdate, OthersKept
  <2> QED BY <2>1, <2>2
<1>12. ASSUME NEW v \in Users, UserDelete(v) PROVE KeepsWay(u)
  <2>1. OthersKept(v)
    BY <1>0, <1>12 DEF UserDelete, OthersKept, AccountTypes
  <2>2. CASE u = v
    <3>1. users'[u].state = "deleted"
      BY <1>0, <1>12, <2>2 DEF UserDelete, AccountTypes, User
    <3> QED BY <3>1 DEF KeepsWay, IsLive
  <2>3. CASE u # v
    BY <1>a, <2>1, <2>3
  <2> QED BY <2>2, <2>3
<1>13. ASSUME NEW v \in Users, NEW e \in Emails, ScimCreateUser(v, e) PROVE KeepsWay(u)
  BY <1>c, <1>13 DEF ScimCreateUser
<1>14. Ends => KeepsWay(u)
  BY <1>c, EndsAreEndSessions DEF EndSessions
<1>15. Domain => KeepsWay(u)
  BY <1>0, <1>c, DomainStepTypes DEF DomainsOnly
<1>16. UNCHANGED vars => KeepsWay(u)
  BY <1>c DEF vars
<1> QED
  BY <1>1, <1>2, <1>3, <1>4, <1>5, <1>6, <1>7, <1>8, <1>9, <1>10, <1>11, <1>12, <1>13,
     <1>14, <1>15, <1>16 DEF Next, ByProvider, ByPasskey, Methods, Absent

\* No order of unlinking and deleting takes somebody's last way in; turning
\* passkeys off does, and so does deleting the user (identities.go, passkeys.go).
THEOREM WayInKept == Spec => MethodKept
<1>1. IInv /\ [Next]_vars =>
        [\A u \in Users :
            WaysIn(u) # {} /\ WaysIn(u)' = {} => ~IsLive(u)' \/ (passkeysOn /\ ~passkeysOn')]_vars
  BY NextWays DEF KeepsWay, IInv
<1> QED BY <1>1, Invariance, PTL DEF Spec, MethodKept
=============================================================================

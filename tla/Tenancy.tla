------------------------------ MODULE Tenancy ------------------------------
(***************************************************************************)
(* Who belongs to which organisation, with which role, and why: the        *)
(* memberships table and everything that writes it.                        *)
(*                                                                         *)
(*   people      org.create, role.create, role.update, membership.create,  *)
(*               membership.delete, member.remove, member.invite,          *)
(*               invite.accept, user.delete          (src/internal/action) *)
(*   sign-in     sign-up by invitation, JIT or open sign-up; JIT and group *)
(*               sync at every sign-in through an organisation's provider  *)
(*                                          (src/internal/auth/resolve.go) *)
(*   SCIM        users and groups pushed by an organisation's directory    *)
(*                                             (src/internal/auth/scim)    *)
(*                                                                         *)
(* Every handler runs in one SQLite write transaction, so it is one step;  *)
(* the interleaving that matters is of whole handlers, of three kinds of   *)
(* writers that know nothing of each other.  A handler that returns an     *)
(* error rolls back, which is a step that changes nothing and is left out. *)
(* Any caller may call any handler at any time: the permission check runs  *)
(* before the transaction and may be stale.  Audit rows, sessions and API  *)
(* keys are not kept here (SignIn models the sessions).                    *)
(***************************************************************************)
EXTENDS Integers, FiniteSets, Sequences, SequencesExt

CONSTANTS
    Orgs,          \* organisations, other than the platform's own
    Platform,      \* the platform organisation (migration 0005)
    Teams,         \* teams and projects, as the rows of an organisation name them
    TeamOrg,       \* the organisation of those rows (org_id)
    Users,         \* user ids
    Emails,        \* email addresses
    DomainOf,      \* the domain of each address
    AdminEmails,   \* BC_ADMIN_EMAILS
    Roles,         \* role ids, the two seeded ones included
    SysOwner,      \* the seeded "Org Owner" role, held by the platform
    SysMember,     \* the seeded "Member" role, held by the platform
    Groups,        \* group names an identity provider can send
    Directory,     \* SCIM group ids
    Providers,     \* the organisations' identity providers
    Invites,       \* invitation ids
    EditedRoles,   \* the roles people edit
    ManualGrants,  \* <<resource, role>> pairs people ask for by hand
    MappingInputs, \* the group mappings administrators ask for
    MaxMappings,   \* bound: mappings per organisation (500 in the code)
    MaxChanges,    \* bound: how often the configuration is changed
    NONE

Domains == {DomainOf[e] : e \in Emails}
AllOrgs == Orgs \cup {Platform}
Resources == AllOrgs \cup Teams
\* The row's organisation; a team that the rows of two organisations name is two
\* elements of Teams, as org_id is part of the key of memberships.
OrgOf(res) == IF res \in Teams THEN TeamOrg[res] ELSE res
SysRoles == {SysOwner, SysMember}
Sources == {"manual", "invite", "jit", "idp", "scim"}

Mapping == [group : Groups, role : Roles, res : Resources, prov : Providers \cup {NONE}]
Row == [role : Roles \cup {NONE}, source : Sources]
Invite == [email : Emails, res : Resources, role : Roles, state : {"pending", "accepted", "expired"}]

ASSUME TenancyAssumption ==
    /\ Platform \notin Orgs /\ Teams \cap AllOrgs = {}
    /\ TeamOrg \in [Teams -> Orgs]
    /\ DOMAIN DomainOf = Emails /\ AdminEmails \subseteq Emails
    /\ SysRoles \subseteq Roles /\ SysOwner # SysMember
    /\ EditedRoles \subseteq Roles
    /\ ManualGrants \subseteq Resources \X (Roles \cup {NONE})
    /\ MappingInputs \subseteq Mapping
    /\ MaxMappings \in Nat /\ MaxChanges \in Nat
    /\ NONE \notin AllOrgs \cup Roles \cup Providers \cup Emails
    /\ NONE \notin Row \cup Invite \cup {"active", "inactive"}
    /\ NONE \notin [name : Groups, members : SUBSET Users]
    /\ IsFiniteSet(Users)

VARIABLES
    orgs,         \* the organisations that exist
    users,        \* the users table: state and address of each user id
    roles,        \* the roles table: organisation and whether it grants "*"
    memberships,  \* memberships[u][res]: NONE or a row
    invites,      \* the invites table
    acceptedBy,   \* history: the users each invitation let in
    sso,          \* org_sso_settings: JIT, its default role, group sync
    mappings,     \* idp_group_mappings, oldest first
    verified,     \* the organisation that verified each domain
    scim,         \* scim_users: NONE, "active" or "inactive"
    groups,       \* scim_groups: NONE or a name and members
    changes       \* configuration changes made so far

vars == <<orgs, users, roles, memberships, invites, acceptedBy, sso, mappings,
          verified, scim, groups, changes>>

-----------------------------------------------------------------------------
(* Roles and owners                                                        *)

\* roles[r] grants "*"; the seeded owner role counts whatever its grants are.
OwnerEquivalent(rs, r) == r = SysOwner \/ rs[r].star

\* A role an organisation may hand out: its own, or a seeded one.
RoleForOrg(o, r) ==
    /\ r # NONE /\ o # Platform
    /\ roles[r].org = o \/ (roles[r].org = Platform /\ r \in SysRoles)

\* The live users whose organisation-level membership of o is an owner's.
OrgOwners(us, ms, rs, o) ==
    {u \in Users : /\ us[u].state = "live"
                   /\ ms[u][o] # NONE
                   /\ ms[u][o].role # NONE
                   /\ OwnerEquivalent(rs, ms[u][o].role)}

IsLastOwner(ms, o, u) == OrgOwners(users, ms, roles, o) = {u}

\* NewOwnerGuard before a change by hand to (ms, rs), Check after it.
OwnerGuard(ms, rs, o) ==
    OrgOwners(users, memberships, roles, o) # {} => OrgOwners(users, ms, rs, o) # {}

\* JIT's default role for o, or NONE when JIT is off or the role no longer fits.
JITDefaultRole(o) ==
    IF sso[o].jit /\ RoleForOrg(o, sso[o].role) /\ ~OwnerEquivalent(roles, sso[o].role)
    THEN sso[o].role ELSE NONE

\* Mutant: the default role is trusted as it was when it was set.
DefaultRoleAsSet(o) == IF sso[o].role # NONE THEN sso[o].role ELSE SysMember

\* SCIM's default role: the same role whether or not JIT is on, else Member.
DefaultRole(o) ==
    IF RoleForOrg(o, sso[o].role) /\ ~OwnerEquivalent(roles, sso[o].role)
    THEN sso[o].role ELSE SysMember

VerifiedOrgForEmail(e) == verified[DomainOf[e]]

\* The asserted address is on a domain of o, and JIT has a role to give.
JITApplies(o, d) == JITDefaultRole(o) # NONE /\ verified[d] = o

-----------------------------------------------------------------------------
(* Group sync                                                              *)

\* The mappings that give u a role on res: o's own, for the provider of this
\* sign-in or for any, with a role o may still hand out.
Applicable(o, prov, gs, res) ==
    {i \in DOMAIN mappings[o] : /\ mappings[o][i].group \in gs
                                /\ mappings[o][i].prov \in {NONE, prov}
                                /\ mappings[o][i].res = res
                                /\ RoleForOrg(o, mappings[o][i].role)}

\* The oldest of them wins.
Desired(o, prov, gs, res) ==
    LET app == Applicable(o, prov, gs, res)
    IN  IF app = {} THEN NONE
        ELSE mappings[o][CHOOSE i \in app : \A j \in app : i <= j].role

\* Mutant: the last owner is looked for among all rows, not owners' rows.
KeepWhenAlone(ms, o, u, role) ==
    \A v \in Users \ {u} : ms[v][o] = NONE

\* keepLastOwner: taking u's owner membership of o away, or giving it role
\* (NONE for removal), would leave o without an owner.
KeepLastOwner(ms, o, u, role) ==
    /\ role # NONE => ~OwnerEquivalent(roles, role)
    /\ IsLastOwner(ms, o, u)

\* ReconcileIdPMemberships: u's rows in o after group sync.  Only rows of
\* source idp change; the row the organisation needs for its last owner stays.
ReconcileRow(ms, o, u, prov, gs, res) ==
    LET cur  == ms[u][res]
        role == Desired(o, prov, gs, res)
    IN  IF cur = NONE
        THEN IF role = NONE THEN NONE ELSE [role |-> role, source |-> "idp"]
        ELSE IF cur.source # "idp" \/ cur.role = role \/ (res = o /\ KeepLastOwner(ms, o, u, role))
        THEN cur
        ELSE IF role = NONE THEN NONE ELSE [cur EXCEPT !.role = role]

ReconcileIdPMemberships(ms, o, u, prov, gs) ==
    [ms EXCEPT ![u] = [res \in Resources |->
        IF OrgOf(res) = o THEN ReconcileRow(ms, o, u, prov, gs, res) ELSE ms[u][res]]]

\* The names of the SCIM groups u is in, in o.
GroupNames(gs, o, u) ==
    {gs[o][g].name : g \in {d \in Directory : gs[o][d] # NONE /\ u \in gs[o][d].members}}

\* syncUser: SCIM users follow their SCIM groups; inactive ones are skipped.
SyncUser(ms, sc, gs, o, u) ==
    IF sc[o][u] # "active" THEN ms
    ELSE ReconcileIdPMemberships(ms, o, u, NONE, GroupNames(gs, o, u))

\* The orders in which the users' ids, which are random, may sort.
UserOrders ==
    {s \in [1..Cardinality(Users) -> Users] : \A i, j \in DOMAIN s : i # j => s[i] # s[j]}

\* syncUsers: each affected user once, in the order of their ids, every one
\* seeing what the ones before it left.
SyncUsers(sc, gs, o, affected, order) ==
    LET after[n \in 0..Cardinality(Users)] ==
            IF n = 0 THEN memberships
            ELSE IF order[n] \in affected THEN SyncUser(after[n - 1], sc, gs, o, order[n])
            ELSE after[n - 1]
    IN  after[Cardinality(Users)]

-----------------------------------------------------------------------------
Init ==
    /\ orgs = {Platform}
    /\ users = [u \in Users |-> [state |-> "absent", email |-> NONE]]
    /\ roles = [r \in Roles |->
                  [org  |-> IF r \in SysRoles THEN Platform ELSE NONE, star |-> r = SysOwner]]
    /\ memberships = [u \in Users |-> [res \in Resources |-> NONE]]
    /\ invites = [i \in Invites |-> NONE]
    /\ acceptedBy = [i \in Invites |-> {}]
    /\ sso = [o \in Orgs |-> [jit |-> FALSE, role |-> NONE, sync |-> FALSE]]
    /\ mappings = [o \in Orgs |-> <<>>]
    /\ verified = [d \in Domains |-> NONE]
    /\ scim = [o \in Orgs |-> [u \in Users |-> NONE]]
    /\ groups = [o \in Orgs |-> [g \in Directory |-> NONE]]
    /\ changes = 0

\* The bound on the changes to roles, settings, mappings, domains and groups; a
\* request that changes none of them is a step that changes nothing.
Reconfigure == changes < MaxChanges /\ changes' = changes + 1

IsLive(u) == users[u].state = "live"
EmailFree(e) == \A u \in Users : users[u].email # e
CreateUser(u, e) ==
    /\ users[u].state = "absent" /\ EmailFree(e)
    /\ users' = [users EXCEPT ![u] = [state |-> "live", email |-> e]]

-----------------------------------------------------------------------------
(* Organisations, roles and memberships, by hand                           *)

\* org.create: the organisation, its Owner role and the creator's membership.
OrgCreate(u, o, r) ==
    /\ o \notin orgs /\ IsLive(u) /\ roles[r].org = NONE
    /\ orgs' = orgs \cup {o}
    /\ roles' = [roles EXCEPT ![r] = [org |-> o, star |-> TRUE]]
    /\ memberships' = [memberships EXCEPT ![u][o] = [role |-> r, source |-> "manual"]]
    /\ UNCHANGED <<users, invites, acceptedBy, sso, mappings, verified, scim, groups, changes>>

RoleCreate(o, r, star) ==
    /\ o \in orgs /\ roles[r].org = NONE
    /\ Reconfigure
    /\ roles' = [roles EXCEPT ![r] = [org |-> o, star |-> star]]
    /\ UNCHANGED <<orgs, users, memberships, invites, acceptedBy, sso, mappings, verified, scim, groups>>

\* role.update: the role is looked up in the caller's organisation, so the copy
\* the code makes of another organisation's system role is never made.
RoleUpdate(o, r, star) ==
    /\ o \in orgs /\ roles[r].org = o /\ roles[r].star # star
    /\ Reconfigure
    /\ roles' = [roles EXCEPT ![r].star = star]
    /\ OwnerGuard(memberships, roles', o)
    /\ UNCHANGED <<orgs, users, memberships, invites, acceptedBy, sso, mappings, verified, scim, groups>>

MembershipOnly == UNCHANGED <<orgs, roles, sso, mappings, verified, groups, changes>>

\* membership.create: neither the role's organisation nor the user is checked,
\* nor whose team it is: the foreign key is on the row's own organisation.
MembershipCreate(u, res, role) ==
    /\ users[u].state # "absent" /\ OrgOf(res) \in orgs
    /\ memberships[u][res] = NONE /\ (role # NONE => roles[role].org # NONE)
    /\ memberships' = [memberships EXCEPT ![u][res] = [role |-> role, source |-> "manual"]]
    /\ MembershipOnly /\ UNCHANGED <<users, invites, acceptedBy, scim>>

\* membership.delete by id, member.remove by user and resource: one effect.
DeleteMembership(u, res) ==
    /\ memberships[u][res] # NONE
    /\ memberships' = [memberships EXCEPT ![u][res] = NONE]
    /\ MembershipOnly /\ UNCHANGED <<users, invites, acceptedBy, scim>>

MembershipDelete(u, res) ==
    DeleteMembership(u, res) /\ OwnerGuard(memberships', roles, OrgOf(res))

MemberRemove(u, res) ==
    DeleteMembership(u, res) /\ OwnerGuard(memberships', roles, OrgOf(res))

\* user.delete: no owner guard; the scrubbed address '' is unique in the users
\* table, so the statement fails once another user has been deleted.
UserDelete(u) ==
    /\ IsLive(u)
    /\ \A v \in Users : users[v].state # "deleted"
    /\ users' = [users EXCEPT ![u] = [state |-> "deleted", email |-> NONE]]
    /\ memberships' = [memberships EXCEPT ![u] = [res \in Resources |-> NONE]]
    /\ MembershipOnly /\ UNCHANGED <<invites, acceptedBy, scim>>

-----------------------------------------------------------------------------
(* Invitations                                                             *)

\* member.invite: one row per address and resource, whatever became of it.
MemberInvite(i, e, res, role) ==
    /\ invites[i] = NONE /\ OrgOf(res) \in orgs /\ role # NONE /\ roles[role].org # NONE
    /\ \A j \in Invites : invites[j] # NONE => invites[j].email # e \/ invites[j].res # res
    /\ invites' = [invites EXCEPT ![i] = [email |-> e, res |-> res, role |-> role, state |-> "pending"]]
    /\ UNCHANGED <<users, memberships, acceptedBy, scim>> /\ MembershipOnly

InviteExpire(i) ==
    /\ invites[i] # NONE /\ invites[i].state = "pending"
    /\ invites' = [invites EXCEPT ![i].state = "expired"]
    /\ UNCHANGED <<users, memberships, acceptedBy, scim>> /\ MembershipOnly

PendingInvite(i) == invites[i] # NONE /\ invites[i].state = "pending"

\* Mutant: the invitation is not marked accepted.
AcceptUnmarked(i, u) ==
    /\ PendingInvite(i)
    /\ memberships[u][invites[i].res] = NONE
    /\ acceptedBy' = [acceptedBy EXCEPT ![i] = @ \cup {u}]
    /\ UNCHANGED invites

\* AcceptInvite for u, in the transaction of invite.accept or of a sign-up:
\* an existing membership of the resource fails the whole transaction.
AcceptInvite(i, u) ==
    /\ PendingInvite(i)
    /\ memberships[u][invites[i].res] = NONE
    /\ invites' = [invites EXCEPT ![i].state = "accepted"]
    /\ acceptedBy' = [acceptedBy EXCEPT ![i] = @ \cup {u}]

InviteRow(i) == [role |-> invites[i].role, source |-> "invite"]

\* invite.accept by whoever holds the token and is signed in.
InviteAccept(i, u) ==
    /\ IsLive(u) /\ AcceptInvite(i, u)
    /\ memberships' = [memberships EXCEPT ![u][invites[i].res] = InviteRow(i)]
    /\ UNCHANGED <<users, scim>> /\ MembershipOnly

-----------------------------------------------------------------------------
(* Sign-in                                                                 *)

\* The group claim of an assertion: <<>> when absent or an overage reference,
\* else <<the groups>>.
Claims == {<<>>} \cup {<<gs>> : gs \in SUBSET Groups}

\* groupSync: an absent claim or an overage reference changes nothing.
GroupSync(ms, o, u, prov, claim) ==
    IF sso[o].sync /\ claim # <<>>
    THEN ReconcileIdPMemberships(ms, o, u, prov, claim[1]) ELSE ms

\* Mutant: only active SCIM users are skipped.
ProvisionInactive(ms, o, u, prov, d, claim) ==
    LET synced == GroupSync(ms, o, u, prov, claim)
    IN  IF scim[o][u] = "active" THEN ms
        ELSE IF JITApplies(o, d) /\ synced[u][o] = NONE
        THEN [synced EXCEPT ![u][o] = [role |-> JITDefaultRole(o), source |-> "jit"]]
        ELSE synced

\* orgProvisioning after a sign-in through one of o's providers: nothing for a
\* user with a SCIM row in o; else group sync, then JIT.
OrgProvisioning(ms, o, u, prov, d, claim) ==
    IF scim[o][u] # NONE THEN ms
    ELSE LET synced == GroupSync(ms, o, u, prov, claim)
         IN  IF JITApplies(o, d) /\ synced[u][o] = NONE
             THEN [synced EXCEPT ![u][o] = [role |-> JITDefaultRole(o), source |-> "jit"]]
             ELSE synced

\* A sign-in of a known user; the asserted address, on domain d, need not be
\* the account's.
SignInOrg(u, o, prov, d, claim) ==
    /\ IsLive(u) /\ o \in orgs
    /\ memberships' = OrgProvisioning(memberships, o, u, prov, d, claim)
    /\ MembershipOnly /\ UNCHANGED <<users, invites, acceptedBy, scim>>

\* A first sign-in through o's provider on a verified domain, JIT on.
SignUpJIT(u, o, prov, e, claim) ==
    /\ o \in orgs /\ JITApplies(o, DomainOf[e]) /\ CreateUser(u, e)
    /\ memberships' = OrgProvisioning(memberships, o, u, prov, DomainOf[e], claim)
    /\ MembershipOnly /\ UNCHANGED <<invites, acceptedBy, scim>>

\* A first sign-in with an invitation: the account gets the invitation's
\* address.  Through o's provider (NONE: a platform one) provisioning follows.
SignUpInvite(u, i, o, prov, d, claim) ==
    /\ PendingInvite(i) /\ CreateUser(u, invites[i].email) /\ AcceptInvite(i, u)
    /\ o # NONE => o \in orgs
    /\ LET joined == [memberships EXCEPT ![u][invites[i].res] = InviteRow(i)]
       IN  memberships' = IF o = NONE THEN joined ELSE OrgProvisioning(joined, o, u, prov, d, claim)
    /\ MembershipOnly /\ UNCHANGED scim

\* Open sign-up through a platform provider.
SignUpOpen(u, e) ==
    /\ CreateUser(u, e)
    /\ MembershipOnly /\ UNCHANGED <<memberships, invites, acceptedBy, scim>>

\* ensurePlatformAdmin: a BC_ADMIN_EMAILS user signs in.
SignInAdmin(u) ==
    /\ IsLive(u) /\ users[u].email \in AdminEmails /\ memberships[u][Platform] = NONE
    /\ memberships' = [memberships EXCEPT ![u][Platform] = [role |-> SysOwner, source |-> "manual"]]
    /\ MembershipOnly /\ UNCHANGED <<users, invites, acceptedBy, scim>>

-----------------------------------------------------------------------------
(* SCIM                                                                    *)

\* grantMembership: an existing organisation-level membership is kept.
GrantMembership(ms, o, u) ==
    IF ms[u][o] # NONE THEN ms
    ELSE [ms EXCEPT ![u][o] = [role |-> DefaultRole(o), source |-> "scim"]]

\* deprovision: every membership of u in o goes, whatever its source, except
\* the last owner's.
Deprovision(o, u) ==
    [memberships EXCEPT ![u] = [res \in Resources |->
        IF OrgOf(res) = o /\ ~(res = o /\ IsLastOwner(memberships, o, u))
        THEN NONE ELSE memberships[u][res]]]

\* createUser: an account that has the address is linked only on a domain the
\* organisation verified; otherwise a new account is made.
ScimCreateUser(o, u, e, active) ==
    /\ o \in orgs /\ scim[o][u] = NONE
    /\ \/ /\ IsLive(u) /\ users[u].email = e /\ VerifiedOrgForEmail(e) = o
          /\ UNCHANGED users
       \/ CreateUser(u, e)
    /\ scim' = [scim EXCEPT ![o][u] = IF active THEN "active" ELSE "inactive"]
    /\ memberships' = IF active THEN GrantMembership(memberships, o, u) ELSE memberships
    /\ MembershipOnly /\ UNCHANGED <<invites, acceptedBy>>

\* updateUser turning active off.
ScimDeactivate(o, u) ==
    /\ scim[o][u] = "active"
    /\ scim' = [scim EXCEPT ![o][u] = "inactive"]
    /\ memberships' = Deprovision(o, u)
    /\ MembershipOnly /\ UNCHANGED <<users, invites, acceptedBy>>

\* updateUser turning active on: membership first, then the groups.
ScimReactivate(o, u) ==
    /\ scim[o][u] = "inactive"
    /\ scim' = [scim EXCEPT ![o][u] = "active"]
    /\ memberships' = SyncUser(GrantMembership(memberships, o, u), scim', groups, o, u)
    /\ MembershipOnly /\ UNCHANGED <<users, invites, acceptedBy>>

\* deleteUser: deprovision, leave every group, drop the SCIM row.
ScimDeleteUser(o, u) ==
    /\ scim[o][u] # NONE
    /\ scim' = [scim EXCEPT ![o][u] = NONE]
    /\ memberships' = Deprovision(o, u)
    /\ groups' = [groups EXCEPT ![o] = [g \in Directory |->
                    IF groups[o][g] = NONE THEN NONE
                    ELSE [groups[o][g] EXCEPT !.members = @ \ {u}]]]
    /\ UNCHANGED <<orgs, users, roles, invites, acceptedBy, sso, mappings, verified, changes>>

\* Mutant: only the users added and removed are reconciled.
SaveGroupNoRename(o, g, name, members, order) ==
    LET before == IF groups[o][g] = NONE THEN {} ELSE groups[o][g].members
    IN  /\ groups' = [groups EXCEPT ![o][g] = [name |-> name, members |-> members]]
        /\ memberships' = SyncUsers(scim, groups', o, (members \ before) \cup (before \ members), order)

\* saveGroup: the users whose group names change are reconciled.
SaveGroup(o, g, name, members, order) ==
    LET old      == groups[o][g]
        before   == IF old = NONE THEN {} ELSE old.members
        renamed  == old # NONE /\ old.name # name
        affected == (members \ before) \cup (before \ members)
                    \cup (IF renamed THEN members \cap before ELSE {})
    IN  /\ groups' = [groups EXCEPT ![o][g] = [name |-> name, members |-> members]]
        /\ memberships' = SyncUsers(scim, groups', o, affected, order)

\* createGroup, putGroup, patchGroup: members are users with a SCIM row in o.
ScimSaveGroup(o, g, name, members, order) ==
    /\ o \in orgs /\ \A u \in members : scim[o][u] # NONE
    /\ Reconfigure
    /\ SaveGroup(o, g, name, members, order) /\ groups' # groups
    /\ UNCHANGED <<orgs, users, roles, invites, acceptedBy, sso, mappings, verified, scim>>

ScimDeleteGroup(o, g, order) ==
    /\ groups[o][g] # NONE
    /\ Reconfigure
    /\ groups' = [groups EXCEPT ![o][g] = NONE]
    /\ memberships' = SyncUsers(scim, groups', o, groups[o][g].members, order)
    /\ UNCHANGED <<orgs, users, roles, invites, acceptedBy, sso, mappings, verified, scim>>

-----------------------------------------------------------------------------
(* Configuration                                                           *)

\* org.sso.update, the provisioning half: the default role must be one o may
\* hand out and not an owner's, and JIT needs one.
SsoUpdate(o, jit, role, sync) ==
    /\ o \in orgs /\ (jit => role # NONE)
    /\ role # NONE => RoleForOrg(o, role) /\ ~OwnerEquivalent(roles, role)
    /\ Reconfigure
    /\ sso' = [sso EXCEPT ![o] = [jit |-> jit, role |-> role, sync |-> sync]] /\ sso' # sso
    /\ UNCHANGED <<orgs, users, roles, memberships, invites, acceptedBy, mappings, verified, scim, groups>>

\* Mutant: off by one.
MappingRoomOneMore(o) == Len(mappings[o]) <= MaxMappings

MappingRoom(o) == Len(mappings[o]) < MaxMappings

\* org.idp_mapping.create: a role o may hand out, on one of o's resources.
MappingCreate(o, m) ==
    /\ o \in orgs /\ RoleForOrg(o, m.role) /\ OrgOf(m.res) = o
    /\ MappingRoom(o)
    /\ \A i \in DOMAIN mappings[o] :
          <<mappings[o][i].group, mappings[o][i].res, mappings[o][i].prov>> # <<m.group, m.res, m.prov>>
    /\ Reconfigure
    /\ mappings' = [mappings EXCEPT ![o] = Append(@, m)]
    /\ UNCHANGED <<orgs, users, roles, memberships, invites, acceptedBy, sso, verified, scim, groups>>

MappingDelete(o, i) ==
    /\ i \in DOMAIN mappings[o]
    /\ Reconfigure
    /\ mappings' = [mappings EXCEPT ![o] = RemoveAt(@, i)]
    /\ UNCHANGED <<orgs, users, roles, memberships, invites, acceptedBy, sso, verified, scim, groups>>

\* A domain is verified by o, or o removes it (module SignIn has the steps).
DomainChange(d, o) ==
    /\ \/ verified[d] = NONE /\ o \in orgs \ {Platform}
       \/ verified[d] # NONE /\ o = NONE
    /\ Reconfigure
    /\ verified' = [verified EXCEPT ![d] = o]
    /\ UNCHANGED <<orgs, users, roles, memberships, invites, acceptedBy, sso, mappings, scim, groups>>

-----------------------------------------------------------------------------
ByHand ==
    \/ \E u \in Users, o \in Orgs, r \in Roles : OrgCreate(u, o, r)
    \/ \E o \in AllOrgs, r \in EditedRoles, star \in BOOLEAN :
          RoleCreate(o, r, star) \/ RoleUpdate(o, r, star)
    \/ \E u \in Users, x \in ManualGrants : MembershipCreate(u, x[1], x[2])
    \/ \E u \in Users, res \in Resources : MembershipDelete(u, res) \/ MemberRemove(u, res)
    \/ \E u \in Users : UserDelete(u)
    \/ \E i \in Invites, e \in Emails, x \in ManualGrants : MemberInvite(i, e, x[1], x[2])
    \/ \E i \in Invites : InviteExpire(i)
    \/ \E i \in Invites, u \in Users : InviteAccept(i, u)

AtSignIn ==
    \E u \in Users :
        \/ \E e \in Emails : SignUpOpen(u, e)
        \/ SignInAdmin(u)
        \/ \E i \in Invites, p \in Providers, d \in Domains : SignUpInvite(u, i, NONE, p, d, <<>>)
        \/ \E o \in Orgs, p \in Providers : \E claim \in IF sso[o].sync THEN Claims ELSE {<<>>} :
              \/ \E d \in Domains : SignInOrg(u, o, p, d, claim)
              \/ \E e \in Emails : SignUpJIT(u, o, p, e, claim)
              \/ \E i \in Invites, d \in Domains : SignUpInvite(u, i, o, p, d, claim)

ByDirectory ==
    \E o \in Orgs :
        \/ \E u \in Users, e \in Emails, active \in BOOLEAN : ScimCreateUser(o, u, e, active)
        \/ \E u \in Users : ScimDeactivate(o, u) \/ ScimReactivate(o, u) \/ ScimDeleteUser(o, u)
        \/ \E g \in Directory, order \in UserOrders :
              \/ \E n \in Groups, ms \in SUBSET Users : ScimSaveGroup(o, g, n, ms, order)
              \/ ScimDeleteGroup(o, g, order)

ByConfiguration ==
    \/ \E o \in Orgs, jit, sync \in BOOLEAN, r \in Roles \cup {NONE} : SsoUpdate(o, jit, r, sync)
    \/ \E o \in Orgs, m \in MappingInputs : MappingCreate(o, m)
    \/ \E o \in Orgs, i \in 1..MaxMappings : MappingDelete(o, i)
    \/ \E d \in Domains, o \in Orgs \cup {NONE} : DomainChange(d, o)

Next == ByHand \/ AtSignIn \/ ByDirectory \/ ByConfiguration

Spec == Init /\ [][Next]_vars

-----------------------------------------------------------------------------
(* Properties                                                              *)

\* Every table holds rows of its shape.
TypeOK ==
    /\ orgs \subseteq AllOrgs /\ Platform \in orgs
    /\ users \in [Users -> [state : {"absent", "live", "deleted"}, email : Emails \cup {NONE}]]
    /\ roles \in [Roles -> [org : AllOrgs \cup {NONE}, star : BOOLEAN]]
    /\ memberships \in [Users -> [Resources -> Row \cup {NONE}]]
    /\ invites \in [Invites -> Invite \cup {NONE}]
    /\ acceptedBy \in [Invites -> SUBSET Users]
    /\ sso \in [Orgs -> [jit : BOOLEAN, role : Roles \cup {NONE}, sync : BOOLEAN]]
    /\ mappings \in [Orgs -> Seq(Mapping)] /\ \A o \in Orgs : Len(mappings[o]) <= MaxMappings
    /\ verified \in [Domains -> Orgs \cup {NONE}]
    /\ scim \in [Orgs -> [Users -> {NONE, "active", "inactive"}]]
    /\ groups \in [Orgs -> [Directory -> [name : Groups, members : SUBSET Users] \cup {NONE}]]
    /\ changes \in 0..MaxChanges

\* An organisation is left without an owner by this step.
OwnerLost(o) ==
    /\ OrgOwners(users, memberships, roles, o) # {}
    /\ OrgOwners(users', memberships', roles', o) = {}

\* Last-owner protection (last_owner.go): whatever the order in which people,
\* sign-ins and the directory remove and demote, an organisation keeps an
\* owner.  Two steps are not guarded: user.delete, and role.update of a role
\* another organisation owns, whose guard looks only at its own organisation.
LastOwnerKept ==
    [][\A o \in AllOrgs : OwnerLost(o) =>
          \/ \E u \in Users : users[u].state = "live" /\ users'[u].state = "deleted"
          \/ \E r \in Roles : roles[r].org \notin {o, NONE} /\ roles'[r] # roles[r]]_vars

\* A user the directory deactivated gets nothing back by signing in or by a
\* change of groups: while inactive, the rows of the organisation change only
\* by hand (resolve.go orgProvisioning, scim/provision.go syncUser).
InactiveStaysOut ==
    [][\A o \in Orgs, u \in Users, res \in Resources :
          /\ scim[o][u] = "inactive" /\ scim'[o][u] = "inactive"
          /\ OrgOf(res) = o
          /\ memberships'[u][res] \notin {memberships[u][res], NONE}
          => memberships'[u][res].source \in {"manual", "invite"}]_vars

\* Provisioning makes no owners: the default role is read when it is used, and
\* one that was edited into an owner's since it was set is not given.  (SCIM's
\* fall-back, the seeded Member role, is given whatever its grants are.)
ProvisionedNotOwner ==
    [][\A o \in Orgs, u \in Users :
          LET row == memberships'[u][o]
          IN  /\ row \notin {memberships[u][o], NONE}
              /\ row.source \in {"jit", "scim"}
              /\ ~(row.source = "scim" /\ row.role = SysMember)
              => ~OwnerEquivalent(roles', row.role)]_vars

\* The rows of source idp that u holds in o agree with u's SCIM groups.
FollowsGroups(ms, gs, o, u, res) ==
    LET role == Desired(o, NONE, GroupNames(gs, o, u), res)
    IN  /\ role # NONE => ms[u][res] # NONE
        /\ ms[u][res] # NONE /\ ms[u][res].source = "idp" => ms[u][res].role = role

\* After every change of the directory's groups (members added, removed or
\* kept across a rename, a group deleted) the memberships of each active user
\* whose groups changed follow the mappings; at most one user per organisation
\* keeps more than that, as its owner (scim/groups.go saveGroup).
GroupChangesFollowed ==
    [][\A o \in Orgs :
          LET moved == {u \in Users : /\ groups[o] # groups'[o]
                                      /\ scim[o][u] = "active" /\ scim'[o][u] = "active"
                                      /\ GroupNames(groups, o, u) # GroupNames(groups', o, u)}
              lag   == {u \in moved : ~FollowsGroups(memberships', groups', o, u, o)}
          IN  /\ \A u \in moved, res \in Teams :
                    TeamOrg[res] = o => FollowsGroups(memberships', groups', o, u, res)
              /\ Cardinality(lag) <= 1
              /\ lag \subseteq OrgOwners(users', memberships', roles', o)]_vars

\* An invitation lets one person in, through invite.accept or a sign-up, and
\* every membership of source invite is one an invitation gave to that person.
InvitesSpentOnce ==
    /\ \A i \in Invites : Cardinality(acceptedBy[i]) <= 1
    /\ \A u \in Users, res \in Resources :
          memberships[u][res] # NONE /\ memberships[u][res].source = "invite" =>
            \E i \in Invites : /\ acceptedBy[i] = {u} /\ invites[i].res = res
                               /\ invites[i].role = memberships[u][res].role
=============================================================================

---------------------------- MODULE TenancyProofs ----------------------------
(***************************************************************************)
(* The properties of Tenancy for any organisations, people, roles, groups, *)
(* mappings and invitations, and any number of changes.                    *)
(*                                                                         *)
(* Three kinds of writers change memberships automatically: sign-ins, the  *)
(* directory and group sync.  What any of them may do to the rows of one   *)
(* user in one organisation is the relation Changed, proved once for each  *)
(* operator; the properties follow from it, and from what the handlers     *)
(* that people call write by hand.                                         *)
(***************************************************************************)
EXTENDS Tenancy, FiniteSetTheorems, SequenceTheorems, TLAPS

-----------------------------------------------------------------------------
(* The conjuncts of TypeOK by the variables they are about                 *)

Tables == [Users -> [Resources -> Row \cup {NONE}]]

OrgTypes == orgs \subseteq AllOrgs /\ Platform \in orgs
UserTypes == users \in [Users -> [state : {"absent", "live", "deleted"}, email : Emails \cup {NONE}]]
RoleTypes == roles \in [Roles -> [org : AllOrgs \cup {NONE}, star : BOOLEAN]]
MembershipTypes == memberships \in Tables
InviteTypes ==
    invites \in [Invites -> Invite \cup {NONE}] /\ acceptedBy \in [Invites -> SUBSET Users]
SsoTypes == sso \in [Orgs -> [jit : BOOLEAN, role : Roles \cup {NONE}, sync : BOOLEAN]]
MappingTypes ==
    mappings \in [Orgs -> Seq(Mapping)] /\ \A o \in Orgs : Len(mappings[o]) <= MaxMappings
VerifiedTypes == verified \in [Domains -> Orgs \cup {NONE}]
ScimTypes == scim \in [Orgs -> [Users -> {NONE, "active", "inactive"}]]
GroupTypes == groups \in [Orgs -> [Directory -> [name : Groups, members : SUBSET Users] \cup {NONE}]]
ChangeTypes == changes \in 0..MaxChanges

LEMMA TypeParts ==
    TypeOK <=> /\ OrgTypes /\ UserTypes /\ RoleTypes /\ MembershipTypes /\ InviteTypes /\ SsoTypes
               /\ MappingTypes /\ VerifiedTypes /\ ScimTypes /\ GroupTypes /\ ChangeTypes
  BY DEF TypeOK, OrgTypes, UserTypes, RoleTypes, MembershipTypes, InviteTypes, SsoTypes,
         MappingTypes, VerifiedTypes, ScimTypes, GroupTypes, ChangeTypes, Tables

-----------------------------------------------------------------------------
(* The invariant                                                           *)

\* An id that no organisation has made a role of grants nothing.
UnmadeRoles == \A r \in Roles : roles[r].org = NONE => ~roles[r].star /\ r # SysOwner

\* An invitation that is not accepted let nobody in; an accepted one, somebody.
SpentWhenAccepted ==
    \A i \in Invites : \/ acceptedBy[i] = {}
                       \/ /\ invites[i] # NONE /\ invites[i].state = "accepted"
                          /\ \E u \in Users : acceptedBy[i] = {u}

\* Every row of source invite is one an invitation gave to that person.
InviteRowsGiven ==
    \A u \in Users, res \in Resources :
        memberships[u][res] # NONE /\ memberships[u][res].source = "invite" =>
          \E i \in Invites : /\ acceptedBy[i] = {u} /\ invites[i].res = res
                             /\ invites[i].role = memberships[u][res].role

IInv == TypeOK /\ UnmadeRoles /\ SpentWhenAccepted /\ InviteRowsGiven

-----------------------------------------------------------------------------
(* Induction                                                               *)

LEMMA SmallestNumber ==
    ASSUME NEW T \in SUBSET Nat, T # {}
    PROVE  \E x \in T : \A y \in T : x <= y
<1> DEFINE R == OpToRel(<, Nat)
<1>1. IsWellFoundedOn(R, Nat)
  BY NatLessThanWellFounded
<1>2. \A x, y \in Nat : y < x => <<y, x>> \in R
  BY DEF OpToRel
<1> HIDE DEF R
<1>3. PICK x \in T : \A y \in T : ~ (<<y, x>> \in R)
  BY <1>1, WFMin
<1>4. \A y \in T : ~ (y < x)
  BY <1>2, <1>3
<1> QED BY <1>4

\* Induction over the numbers, for a set instead of a predicate.
LEMMA SetInduction ==
    ASSUME NEW S, 0 \in S, \A n \in Nat : n \in S => n + 1 \in S
    PROVE  Nat \subseteq S
<1> SUFFICES ASSUME Nat \ S # {} PROVE FALSE
  OBVIOUS
<1>1. PICK x \in Nat \ S : \A y \in Nat \ S : x <= y
  BY SmallestNumber
<1>2. x - 1 \in Nat /\ x - 1 \in S
  BY <1>1
<1> QED BY <1>1, <1>2

\* syncUsers is the last of a sequence of tables, one per user in the order.
LEMMA SyncUsersPrefix ==
    ASSUME NEW sc, NEW gs, NEW o, NEW affected, NEW order, Cardinality(Users) \in Nat
    PROVE  \E after :
             /\ after[0] = memberships
             /\ \A n \in 1..Cardinality(Users) :
                   after[n] = IF order[n] \in affected THEN SyncUser(after[n - 1], sc, gs, o, order[n])
                              ELSE after[n - 1]
             /\ SyncUsers(sc, gs, o, affected, order) = after[Cardinality(Users)]
<1> DEFINE N == Cardinality(Users)
           St(m, n) == IF order[n] \in affected THEN SyncUser(m, sc, gs, o, order[n]) ELSE m
           F(f, k) == [n \in 0..k |-> IF n = 0 THEN memberships ELSE St(f[n - 1], n)]
           S == {k \in Nat : \E f : f = F(f, k)}
           g == CHOOSE f : f = F(f, N)
<1>1. SyncUsers(sc, gs, o, affected, order) = g[N]
  BY DEF SyncUsers
<1> HIDE DEF St
<1>2. 0 \in S
  <2>1. [n \in 0..0 |-> memberships] = F([n \in 0..0 |-> memberships], 0)
    OBVIOUS
  <2> QED BY <2>1
<1>3. ASSUME NEW k \in Nat, k \in S PROVE k + 1 \in S
  <2>1. PICK f : f = F(f, k)
    BY <1>3
  <2> DEFINE h == [n \in 0..(k + 1) |-> IF n = k + 1 THEN St(f[k], k + 1) ELSE f[n]]
  <2>2. \A n \in 0..(k + 1) : h[n] = IF n = 0 THEN memberships ELSE St(h[n - 1], n)
    <3>1. \A n \in 0..k : f[n] = IF n = 0 THEN memberships ELSE St(f[n - 1], n)
      BY <2>1
    <3> QED BY <3>1
  <2>3. h = [n \in 0..(k + 1) |-> h[n]]
    OBVIOUS
  <2> HIDE DEF h
  <2>4. h = F(h, k + 1)
    BY <2>2, <2>3
  <2> QED BY <2>4
<1>4. \E f : f = F(f, N)
  <2> HIDE DEF F
  <2>1. Nat \subseteq S
    <3> HIDE DEF S
    <3> QED BY <1>2, <1>3, SetInduction
  <2> QED BY <2>1
<1>5. g = F(g, N)
  <2> HIDE DEF F
  <2> QED BY <1>4
<1> HIDE DEF g
<1>6. /\ g[0] = memberships
      /\ \A n \in 1..N : g[n] = St(g[n - 1], n)
  BY <1>5
<1> QED BY <1>1, <1>6 DEF St

\* What the memberships have and every sync of a user keeps, syncUsers keeps.
LEMMA SyncUsersInduction ==
    ASSUME NEW sc, NEW gs, NEW o, NEW affected, NEW order \in UserOrders,
           NEW I, memberships \in I,
           \A m \in I, u \in Users : SyncUser(m, sc, gs, o, u) \in I
    PROVE  SyncUsers(sc, gs, o, affected, order) \in I
<1> DEFINE N == Cardinality(Users)
<1>1. N \in Nat
  BY FS_CardinalityType, TenancyAssumption
<1> HIDE DEF N
<1>2. order \in [1..N -> Users]
  BY DEF UserOrders, N
<1>3. PICK after :
         /\ after[0] = memberships
         /\ \A n \in 1..N :
               after[n] = IF order[n] \in affected THEN SyncUser(after[n - 1], sc, gs, o, order[n])
                          ELSE after[n - 1]
         /\ SyncUsers(sc, gs, o, affected, order) = after[N]
  BY <1>1, SyncUsersPrefix DEF N
<1> DEFINE S == {n \in Nat : n \in 0..N => after[n] \in I}
<1>4. 0 \in S
  BY <1>3
<1>5. ASSUME NEW n \in Nat, n \in S PROVE n + 1 \in S
  <2> SUFFICES ASSUME n + 1 \in 0..N PROVE after[n + 1] \in I
    OBVIOUS
  <2>1. n + 1 \in 1..N /\ n \in 0..N /\ (n + 1) - 1 = n
    BY <1>1
  <2>2. after[n] \in I /\ order[n + 1] \in Users
    BY <1>2, <1>5, <2>1
  <2>3. after[n + 1] = IF order[n + 1] \in affected THEN SyncUser(after[n], sc, gs, o, order[n + 1])
                       ELSE after[n]
    BY <1>3, <2>1
  <2> QED BY <2>2, <2>3
<1>6. Nat \subseteq S
  <2> HIDE DEF S
  <2> QED BY <1>4, <1>5, SetInduction
<1>7. N \in 0..N
  BY <1>1
<1> QED BY <1>1, <1>3, <1>6, <1>7

-----------------------------------------------------------------------------
(* What provisioning may change                                            *)

\* A role that provisioning gives: no owner's, but for SCIM's fall-back.
NoOwnerRow(row) ==
    \/ row.source = "scim" /\ row.role = SysMember
    \/ ~OwnerEquivalent(roles, row.role)

\* From old to row: unchanged, removed, by group sync, or by JIT or SCIM.
Provisioned(old, row, o, res) ==
    \/ row \in {old, NONE}
    \/ row # NONE /\ row.source = "idp"
    \/ row # NONE /\ row.source \in {"jit", "scim"} /\ res = o /\ NoOwnerRow(row)

\* Every organisation that has an owner in ms has one in new.
OwnersKept(ms, new) ==
    \A p \in AllOrgs : OrgOwners(users, ms, roles, p) # {} => OrgOwners(users, new, roles, p) # {}

\* Only u's rows in o change, as provisioning may change them.
Changed(ms, new, o, u) ==
    /\ new \in Tables
    /\ \A v \in Users \ {u} : new[v] = ms[v]
    /\ \A res \in Resources : OrgOf(res) # o => new[u][res] = ms[u][res]
    /\ \A res \in Resources : Provisioned(ms[u][res], new[u][res], o, res)
    /\ OwnersKept(ms, new)

LEMMA ChangedReflexive ==
    ASSUME NEW ms \in Tables, NEW o, NEW u PROVE Changed(ms, ms, o, u)
  BY DEF Changed, OwnersKept, Provisioned

LEMMA ChangedTransitive ==
    ASSUME NEW ms, NEW mid, NEW new, NEW o, NEW u,
           Changed(ms, mid, o, u), Changed(mid, new, o, u)
    PROVE  Changed(ms, new, o, u)
<1>1. OwnersKept(ms, new)
  BY DEF Changed, OwnersKept
<1>2. ASSUME NEW res \in Resources PROVE Provisioned(ms[u][res], new[u][res], o, res)
  BY DEF Changed, Provisioned
<1> QED BY <1>1, <1>2 DEF Changed

\* Resources of an organisation and the organisation itself.
LEMMA OrgOfResource ==
    /\ \A o \in AllOrgs : OrgOf(o) = o /\ o \in Resources
    /\ \A res \in Resources : OrgOf(res) \in AllOrgs
    /\ \A o \in Orgs : o # Platform /\ o \in AllOrgs
  BY TenancyAssumption DEF OrgOf, Resources, AllOrgs

\* Roles that are no role of another organisation's.
LEMMA RoleForOrgIsRole ==
    ASSUME NEW o, NEW r \in Roles \cup {NONE}, RoleForOrg(o, r) PROVE r \in Roles
  BY DEF RoleForOrg

\* A user whose organisation-level row goes or loses its owner's role leaves an
\* owner behind, unless the user was the last one.
LEMMA OwnersKeptBut ==
    ASSUME NEW ms \in Tables, NEW new \in Tables, NEW u \in Users, NEW o \in AllOrgs,
           \A v \in Users \ {u} : new[v] = ms[v],
           \A p \in AllOrgs : p # o => new[u][p] = ms[u][p],
           \/ OrgOwners(users, ms, roles, o) # {u}
           \/ u \in OrgOwners(users, new, roles, o)
    PROVE  OwnersKept(ms, new)
<1> SUFFICES ASSUME NEW p \in AllOrgs, NEW v \in OrgOwners(users, ms, roles, p)
             PROVE  OrgOwners(users, new, roles, p) # {}
  BY DEF OwnersKept
<1>1. \A w \in Users \ {u} :
         w \in OrgOwners(users, ms, roles, p) => w \in OrgOwners(users, new, roles, p)
  BY DEF OrgOwners
<1>2. CASE p # o
  <2>1. v \in OrgOwners(users, new, roles, p)
    BY <1>1, <1>2 DEF OrgOwners
  <2> QED BY <2>1
<1>3. CASE p = o /\ u \in OrgOwners(users, new, roles, o)
  BY <1>3
<1>4. CASE p = o /\ OrgOwners(users, ms, roles, o) # {u}
  <2>1. PICK w \in OrgOwners(users, ms, roles, o) : w # u
    BY <1>4
  <2>2. w \in Users
    BY <2>1 DEF OrgOwners
  <2> QED BY <1>1, <1>4, <2>1, <2>2
<1> QED BY <1>2, <1>3, <1>4

\* New rows where there were none take no owner away.
LEMMA OwnersKeptByAdding ==
    ASSUME NEW ms \in Tables, NEW new \in Tables,
           \A v \in Users, res \in Resources : ms[v][res] # NONE => new[v][res] = ms[v][res]
    PROVE  OwnersKept(ms, new)
<1> SUFFICES ASSUME NEW p \in AllOrgs, NEW v \in OrgOwners(users, ms, roles, p)
             PROVE  v \in OrgOwners(users, new, roles, p)
  BY DEF OwnersKept
<1>1. v \in Users /\ ms[v][p] # NONE /\ new[v][p] = ms[v][p]
  BY OrgOfResource DEF OrgOwners
<1> QED BY <1>1 DEF OrgOwners

-----------------------------------------------------------------------------
(* Group sync                                                              *)

LEMMA DesiredRole ==
    ASSUME MappingTypes, NEW o \in Orgs, NEW prov, NEW gs, NEW res
    PROVE  /\ Desired(o, prov, gs, res) \in Roles \cup {NONE}
           /\ Desired(o, prov, gs, res) # NONE => RoleForOrg(o, Desired(o, prov, gs, res))
<1> DEFINE app == Applicable(o, prov, gs, res)
<1>1. CASE app = {}
  BY <1>1 DEF Desired
<1>2. CASE app # {}
  <2>1. /\ mappings[o] \in Seq(Mapping)
        /\ DOMAIN mappings[o] = 1..Len(mappings[o]) /\ Len(mappings[o]) \in Nat
    BY LenProperties DEF MappingTypes
  <2>2. app \in SUBSET Nat
    BY <2>1 DEF Applicable
  <2>3. \E i \in app : \A j \in app : i <= j
    BY <1>2, <2>2, SmallestNumber
  <2> DEFINE first == CHOOSE i \in app : \A j \in app : i <= j
  <2>4. first \in app
    BY <2>3
  <2>5. Desired(o, prov, gs, res) = mappings[o][first].role
    BY <1>2 DEF Desired
  <2> HIDE DEF first
  <2>6. first \in 1..Len(mappings[o]) /\ RoleForOrg(o, mappings[o][first].role)
    BY <2>1, <2>4 DEF Applicable
  <2>7. mappings[o][first] \in Mapping
    BY <2>1, <2>6, ElementOfSeq
  <2>8. mappings[o][first].role \in Roles
    BY <2>7 DEF Mapping
  <2> QED BY <2>5, <2>6, <2>8
<1> QED BY <1>1, <1>2

\* What group sync leaves in a row: nothing new, or a role of source idp.
LEMMA ReconciledRow ==
    ASSUME MappingTypes, NEW ms \in Tables, NEW o \in Orgs, NEW u \in Users, NEW prov, NEW gs,
           NEW res \in Resources
    PROVE  /\ ReconcileRow(ms, o, u, prov, gs, res) \in Row \cup {NONE}
           /\ \/ ReconcileRow(ms, o, u, prov, gs, res) \in {ms[u][res], NONE}
              \/ /\ ReconcileRow(ms, o, u, prov, gs, res) # NONE
                 /\ ReconcileRow(ms, o, u, prov, gs, res).source = "idp"
<1> DEFINE role == Desired(o, prov, gs, res)
           cur == ms[u][res]
<1>1. role \in Roles \cup {NONE} /\ cur \in Row \cup {NONE}
  BY DesiredRole DEF Tables
<1> HIDE DEF role
<1>2. role # NONE => /\ [role |-> role, source |-> "idp"] \in Row
                     /\ [role |-> role, source |-> "idp"].source = "idp"
  BY <1>1 DEF Row, Sources
<1>3. cur # NONE /\ cur.source = "idp" =>
        [cur EXCEPT !.role = role] \in Row /\ [cur EXCEPT !.role = role].source = "idp"
  BY <1>1 DEF Row
<1>4. NONE \notin Row
  BY TenancyAssumption
<1> QED BY <1>1, <1>2, <1>3, <1>4 DEF ReconcileRow, role

LEMMA ReconciledTable ==
    ASSUME MappingTypes, NEW ms \in Tables, NEW o \in Orgs, NEW u \in Users, NEW prov, NEW gs
    PROVE  /\ ReconcileIdPMemberships(ms, o, u, prov, gs) \in Tables
           /\ \A v \in Users \ {u} : ReconcileIdPMemberships(ms, o, u, prov, gs)[v] = ms[v]
           /\ \A res \in Resources :
                 ReconcileIdPMemberships(ms, o, u, prov, gs)[u][res] =
                   IF OrgOf(res) = o THEN ReconcileRow(ms, o, u, prov, gs, res) ELSE ms[u][res]
<1> DEFINE rowsOf == [res \in Resources |->
               IF OrgOf(res) = o THEN ReconcileRow(ms, o, u, prov, gs, res) ELSE ms[u][res]]
<1>1. \A res \in Resources : ReconcileRow(ms, o, u, prov, gs, res) \in Row \cup {NONE}
  BY ReconciledRow
<1>2. rowsOf \in [Resources -> Row \cup {NONE}]
  BY <1>1 DEF Tables
<1>3. ReconcileIdPMemberships(ms, o, u, prov, gs) = [ms EXCEPT ![u] = rowsOf]
  BY DEF ReconcileIdPMemberships
<1>4. \A res \in Resources : rowsOf[res] =
         IF OrgOf(res) = o THEN ReconcileRow(ms, o, u, prov, gs, res) ELSE ms[u][res]
  OBVIOUS
<1> HIDE DEF rowsOf
<1> QED BY <1>2, <1>3, <1>4 DEF Tables

\* keepLastOwner: group sync leaves every organisation an owner.
LEMMA ReconcileKeepsOwners ==
    ASSUME MappingTypes, NEW ms \in Tables, NEW o \in Orgs, NEW u \in Users, NEW prov, NEW gs
    PROVE  OwnersKept(ms, ReconcileIdPMemberships(ms, o, u, prov, gs))
<1> DEFINE new == ReconcileIdPMemberships(ms, o, u, prov, gs)
           role == Desired(o, prov, gs, o)
           cur == ms[u][o]
<1>0. role \in Roles \cup {NONE} /\ cur \in Row \cup {NONE} /\ o \in AllOrgs
  BY DesiredRole, OrgOfResource DEF Tables
<1>1. /\ new \in Tables /\ \A v \in Users \ {u} : new[v] = ms[v]
      /\ \A p \in AllOrgs : p # o => new[u][p] = ms[u][p]
      /\ new[u][o] = ReconcileRow(ms, o, u, prov, gs, o)
  BY ReconciledTable, OrgOfResource
<1> HIDE DEF new, role
<1>2. \/ OrgOwners(users, ms, roles, o) # {u}
      \/ u \in OrgOwners(users, new, roles, o)
  <2> SUFFICES ASSUME OrgOwners(users, ms, roles, o) = {u} PROVE u \in OrgOwners(users, new, roles, o)
    OBVIOUS
  <2>1. /\ users[u].state = "live" /\ cur # NONE /\ cur.role # NONE
        /\ OwnerEquivalent(roles, cur.role)
    BY DEF OrgOwners
  <2>2. CASE new[u][o] = cur
    BY <2>1, <2>2 DEF OrgOwners
  <2>3. CASE role # NONE /\ OwnerEquivalent(roles, role) /\ new[u][o] = [cur EXCEPT !.role = role]
    <3>1. cur \in Row
      BY <1>0, <2>1
    <3>2. new[u][o].role = role /\ new[u][o] \in Row
      BY <1>0, <2>3, <3>1 DEF Row
    <3>3. new[u][o] # NONE
      BY <3>2, TenancyAssumption
    <3> QED BY <2>1, <2>3, <3>2, <3>3 DEF OrgOwners
  <2>4. \/ new[u][o] = cur
        \/ role # NONE /\ OwnerEquivalent(roles, role) /\ new[u][o] = [cur EXCEPT !.role = role]
    BY <1>1, <2>1 DEF ReconcileRow, KeepLastOwner, IsLastOwner, role
  <2> QED BY <2>2, <2>3, <2>4
<1> QED BY <1>0, <1>1, <1>2, OwnersKeptBut DEF new

LEMMA ReconcileChanges ==
    ASSUME MappingTypes, NEW ms \in Tables, NEW o \in Orgs, NEW u \in Users, NEW prov, NEW gs
    PROVE  Changed(ms, ReconcileIdPMemberships(ms, o, u, prov, gs), o, u)
<1>1. ASSUME NEW res \in Resources
      PROVE  Provisioned(ms[u][res], ReconcileIdPMemberships(ms, o, u, prov, gs)[u][res], o, res)
  BY ReconciledTable, ReconciledRow DEF Provisioned
<1> QED BY <1>1, ReconciledTable, ReconcileKeepsOwners DEF Changed

\* One row written in a table.
LEMMA RowSet ==
    ASSUME NEW ms \in Tables, NEW u \in Users, NEW res \in Resources, NEW row \in Row \cup {NONE}
    PROVE  /\ [ms EXCEPT ![u][res] = row] \in Tables
           /\ [ms EXCEPT ![u][res] = row][u][res] = row
           /\ \A v \in Users, r \in Resources :
                 v # u \/ r # res => [ms EXCEPT ![u][res] = row][v][r] = ms[v][r]
           /\ \A v \in Users \ {u} : [ms EXCEPT ![u][res] = row][v] = ms[v]
  BY DEF Tables

\* A row written where there was none.
LEMMA RowAdded ==
    ASSUME NEW ms \in Tables, NEW u \in Users, NEW res \in Resources, NEW row \in Row,
           ms[u][res] = NONE
    PROVE  OwnersKept(ms, [ms EXCEPT ![u][res] = row])
<1> DEFINE new == [ms EXCEPT ![u][res] = row]
<1>1. /\ new \in Tables
      /\ \A v \in Users, r \in Resources : v # u \/ r # res => new[v][r] = ms[v][r]
  BY RowSet
<1> HIDE DEF new
<1>2. \A v \in Users, r \in Resources : ms[v][r] # NONE => new[v][r] = ms[v][r]
  BY <1>1
<1> QED BY <1>1, <1>2, OwnersKeptByAdding DEF new

\* A row of JIT or SCIM where there was none.
LEMMA GrantChanges ==
    ASSUME NEW ms \in Tables, NEW o \in AllOrgs, NEW u \in Users, NEW row \in Row,
           ms[u][o] = NONE, row.source \in {"jit", "scim"}, NoOwnerRow(row)
    PROVE  Changed(ms, [ms EXCEPT ![u][o] = row], o, u)
<1> DEFINE new == [ms EXCEPT ![u][o] = row]
<1>1. /\ new \in Tables /\ new[u][o] = row
      /\ \A v \in Users, r \in Resources : v # u \/ r # o => new[v][r] = ms[v][r]
      /\ \A v \in Users \ {u} : new[v] = ms[v]
  BY RowSet, OrgOfResource
<1>2. OwnersKept(ms, new)
  BY RowAdded, OrgOfResource
<1>3. row # NONE
  BY TenancyAssumption
<1> HIDE DEF new
<1>4. \A res \in Resources : Provisioned(ms[u][res], new[u][res], o, res)
  BY <1>1, <1>3 DEF Provisioned
<1>5. \A res \in Resources : OrgOf(res) # o => new[u][res] = ms[u][res]
  BY <1>1, OrgOfResource
<1> QED BY <1>1, <1>2, <1>4, <1>5 DEF Changed, new

LEMMA GroupSyncChanges ==
    ASSUME MappingTypes, NEW ms \in Tables, NEW o \in Orgs, NEW u \in Users, NEW prov, NEW claim
    PROVE  Changed(ms, GroupSync(ms, o, u, prov, claim), o, u)
  BY ReconcileChanges, ChangedReflexive DEF GroupSync

\* orgProvisioning of a user whom the directory does not manage.
LEMMA OrgProvisioningChanges ==
    ASSUME MappingTypes, SsoTypes, NEW ms \in Tables, NEW o \in Orgs, NEW u \in Users,
           NEW prov, NEW d, NEW claim
    PROVE  /\ Changed(ms, OrgProvisioning(ms, o, u, prov, d, claim), o, u)
           /\ scim[o][u] # NONE => OrgProvisioning(ms, o, u, prov, d, claim) = ms
<1> DEFINE synced == GroupSync(ms, o, u, prov, claim)
           row == [role |-> JITDefaultRole(o), source |-> "jit"]
           new == [synced EXCEPT ![u][o] = row]
<1>1. Changed(ms, synced, o, u) /\ synced \in Tables
  BY GroupSyncChanges DEF Changed
<1> HIDE DEF synced
<1>2. ASSUME JITApplies(o, d), synced[u][o] = NONE PROVE Changed(ms, new, o, u)
  <2>1. /\ JITDefaultRole(o) \in Roles /\ ~OwnerEquivalent(roles, JITDefaultRole(o))
    BY <1>2 DEF JITApplies, JITDefaultRole, SsoTypes
  <2>2. row \in Row /\ row.source = "jit" /\ row.role = JITDefaultRole(o)
    BY <2>1 DEF Row, Sources
  <2>3. NoOwnerRow(row)
    BY <2>1, <2>2 DEF NoOwnerRow
  <2> HIDE DEF row
  <2>4. Changed(synced, new, o, u)
    BY <1>1, <1>2, <2>2, <2>3, GrantChanges, OrgOfResource
  <2> HIDE DEF new
  <2> QED BY <1>1, <2>4, ChangedTransitive
<1>3. OrgProvisioning(ms, o, u, prov, d, claim) =
        IF scim[o][u] # NONE THEN ms
        ELSE IF JITApplies(o, d) /\ synced[u][o] = NONE THEN new ELSE synced
  BY DEF OrgProvisioning, synced
<1> HIDE DEF new
<1> QED BY <1>1, <1>2, <1>3, ChangedReflexive

-----------------------------------------------------------------------------
(* The directory                                                           *)

LEMMA GrantMembershipChanges ==
    ASSUME SsoTypes, NEW ms \in Tables, NEW o \in Orgs, NEW u \in Users
    PROVE  Changed(ms, GrantMembership(ms, o, u), o, u)
<1> DEFINE row == [role |-> DefaultRole(o), source |-> "scim"]
<1>1. SysMember \in Roles
  BY TenancyAssumption DEF SysRoles
<1>2. /\ DefaultRole(o) \in Roles
      /\ DefaultRole(o) = SysMember \/ ~OwnerEquivalent(roles, DefaultRole(o))
  BY <1>1, RoleForOrgIsRole DEF DefaultRole, SsoTypes
<1>3. row \in Row /\ row.source = "scim" /\ row.role = DefaultRole(o)
  BY <1>2 DEF Row, Sources
<1>4. NoOwnerRow(row)
  BY <1>2, <1>3 DEF NoOwnerRow
<1>5. GrantMembership(ms, o, u) = IF ms[u][o] # NONE THEN ms ELSE [ms EXCEPT ![u][o] = row]
  BY DEF GrantMembership
<1> HIDE DEF row
<1> QED BY <1>3, <1>4, <1>5, GrantChanges, ChangedReflexive, OrgOfResource

\* deprovision leaves the last owner's row and no other.
LEMMA DeprovisionChanges ==
    ASSUME MembershipTypes, NEW o \in Orgs, NEW u \in Users
    PROVE  Changed(memberships, Deprovision(o, u), o, u)
<1> DEFINE rowsOf == [res \in Resources |->
               IF OrgOf(res) = o /\ ~(res = o /\ IsLastOwner(memberships, o, u))
               THEN NONE ELSE memberships[u][res]]
           new == [memberships EXCEPT ![u] = rowsOf]
<1>0. memberships \in Tables
  BY DEF MembershipTypes
<1>1. rowsOf \in [Resources -> Row \cup {NONE}]
  BY <1>0 DEF Tables
<1>2. \A res \in Resources :
         rowsOf[res] = IF OrgOf(res) = o /\ ~(res = o /\ IsLastOwner(memberships, o, u))
                       THEN NONE ELSE memberships[u][res]
  OBVIOUS
<1>3. Deprovision(o, u) = new
  BY DEF Deprovision
<1> HIDE DEF rowsOf
<1>4. new \in Tables /\ new[u] = rowsOf /\ \A v \in Users \ {u} : new[v] = memberships[v]
  BY <1>0, <1>1 DEF Tables
<1> HIDE DEF new
<1>5. \A res \in Resources : Provisioned(memberships[u][res], new[u][res], o, res)
  BY <1>2, <1>4 DEF Provisioned
<1>6. \A p \in AllOrgs : p # o => new[u][p] = memberships[u][p]
  BY <1>2, <1>4, OrgOfResource
<1>7. \/ OrgOwners(users, memberships, roles, o) # {u}
      \/ u \in OrgOwners(users, new, roles, o)
  <2>1. IsLastOwner(memberships, o, u) => new[u][o] = memberships[u][o]
    BY <1>2, <1>4, OrgOfResource
  <2> QED BY <2>1 DEF OrgOwners, IsLastOwner
<1>8. OwnersKept(memberships, new)
  BY <1>0, <1>4, <1>6, <1>7, OwnersKeptBut, OrgOfResource
<1> QED BY <1>2, <1>3, <1>4, <1>5, <1>8 DEF Changed

LEMMA SyncUserChanges ==
    ASSUME MappingTypes, NEW ms \in Tables, NEW sc, NEW gs, NEW o \in Orgs, NEW u \in Users
    PROVE  /\ Changed(ms, SyncUser(ms, sc, gs, o, u), o, u)
           /\ sc[o][u] # "active" => SyncUser(ms, sc, gs, o, u) = ms
  BY ReconcileChanges, ChangedReflexive DEF SyncUser

\* Group changes: rows of active users in o, by group sync; owners are kept.
SyncedFrom(ms, new, sc, o) ==
    /\ new \in Tables
    /\ \A v \in Users, res \in Resources :
          \/ new[v][res] = ms[v][res]
          \/ /\ OrgOf(res) = o /\ sc[o][v] = "active"
             /\ Provisioned(ms[v][res], new[v][res], o, res)
    /\ OwnersKept(ms, new)

LEMMA SyncUsersSynced ==
    ASSUME MappingTypes, MembershipTypes, NEW sc, NEW gs, NEW o \in Orgs, NEW affected,
           NEW order \in UserOrders
    PROVE  SyncedFrom(memberships, SyncUsers(sc, gs, o, affected, order), sc, o)
<1> DEFINE I == {m \in Tables : SyncedFrom(memberships, m, sc, o)}
<1>1. memberships \in I
  BY DEF MembershipTypes, SyncedFrom, OwnersKept
<1>2. ASSUME NEW m \in I, NEW u \in Users PROVE SyncUser(m, sc, gs, o, u) \in I
  <2> DEFINE new == SyncUser(m, sc, gs, o, u)
  <2>1. /\ Changed(m, new, o, u) /\ (sc[o][u] # "active" => new = m)
        /\ SyncedFrom(memberships, m, sc, o)
    BY SyncUserChanges
  <2> HIDE DEF new
  <2>2. OwnersKept(memberships, new)
    BY <2>1 DEF Changed, SyncedFrom, OwnersKept
  <2>3. ASSUME NEW v \in Users, NEW res \in Resources
        PROVE  \/ new[v][res] = memberships[v][res]
               \/ /\ OrgOf(res) = o /\ sc[o][v] = "active"
                  /\ Provisioned(memberships[v][res], new[v][res], o, res)
    <3>1. CASE new[v][res] = m[v][res]
      BY <2>1, <3>1 DEF SyncedFrom
    <3>2. CASE new[v][res] # m[v][res]
      <4>1. v = u /\ OrgOf(res) = o /\ sc[o][v] = "active" /\ Provisioned(m[v][res], new[v][res], o, res)
        BY <2>1, <3>2 DEF Changed
      <4>2. m[v][res] = memberships[v][res] \/ Provisioned(memberships[v][res], m[v][res], o, res)
        BY <2>1 DEF SyncedFrom
      <4>3. Provisioned(memberships[v][res], new[v][res], o, res)
        BY <3>2, <4>1, <4>2 DEF Provisioned
      <4> QED BY <4>1, <4>3
    <3> QED BY <3>1, <3>2
  <2>4. new \in Tables
    BY <2>1 DEF Changed
  <2>5. SyncedFrom(memberships, new, sc, o)
    BY <2>2, <2>3, <2>4 DEF SyncedFrom
  <2> QED BY <2>4, <2>5 DEF new
<1>3. SyncUsers(sc, gs, o, affected, order) \in I
  <2> HIDE DEF I
  <2> QED BY <1>1, <1>2, SyncUsersInduction
<1> QED BY <1>3

-----------------------------------------------------------------------------
(* Users and invitations                                                   *)

\* Users stay live.
LiveKept == \A v \in Users : IsLive(v) => users'[v].state = "live"

LEMMA CreateUserEffect ==
    ASSUME UserTypes, NEW u \in Users, NEW e \in Emails, CreateUser(u, e)
    PROVE  UserTypes' /\ LiveKept
  BY DEF UserTypes, CreateUser, LiveKept, IsLive

\* What an invitation let in, and for what, does not change.
InvitesKept ==
    \A i \in Invites : acceptedBy[i] # {} =>
        /\ acceptedBy'[i] = acceptedBy[i]
        /\ invites'[i].res = invites[i].res /\ invites'[i].role = invites[i].role

InviteStep == InviteTypes' /\ SpentWhenAccepted' /\ InvitesKept

LEMMA InvitesStay ==
    InviteTypes /\ SpentWhenAccepted /\ UNCHANGED <<invites, acceptedBy>> => InviteStep
  BY DEF InviteTypes, SpentWhenAccepted, InvitesKept, InviteStep

LEMMA AcceptInviteEffect ==
    ASSUME InviteTypes, SpentWhenAccepted, NEW i \in Invites, NEW u \in Users, AcceptInvite(i, u)
    PROVE  /\ InviteStep
           /\ acceptedBy'[i] = {u} /\ invites'[i].res = invites[i].res
           /\ invites'[i].role = invites[i].role
           /\ invites[i] \in Invite /\ memberships[u][invites[i].res] = NONE
<1>1. /\ invites[i] \in Invite /\ invites[i].state = "pending"
      /\ acceptedBy[i] = {} /\ memberships[u][invites[i].res] = NONE
  BY DEF AcceptInvite, PendingInvite, InviteTypes, SpentWhenAccepted
<1> DEFINE new == [invites[i] EXCEPT !.state = "accepted"]
<1>2. /\ new \in Invite /\ new.state = "accepted" /\ new.res = invites[i].res
      /\ new.role = invites[i].role
  BY <1>1 DEF Invite
<1>3. new # NONE
  BY <1>2, TenancyAssumption
<1>4. invites' = [invites EXCEPT ![i] = new]
  BY DEF AcceptInvite
<1> HIDE DEF new
<1>5. /\ invites'[i] = new /\ \A j \in Invites \ {i} : invites'[j] = invites[j]
      /\ acceptedBy'[i] = {u} /\ \A j \in Invites \ {i} : acceptedBy'[j] = acceptedBy[j]
  BY <1>1, <1>4 DEF AcceptInvite, InviteTypes
<1>6. InviteTypes'
  BY <1>2, <1>4 DEF AcceptInvite, InviteTypes
<1>7. SpentWhenAccepted'
  BY <1>2, <1>3, <1>5 DEF SpentWhenAccepted
<1>8. InvitesKept
  BY <1>1, <1>5 DEF InvitesKept
<1> QED BY <1>1, <1>2, <1>5, <1>6, <1>7, <1>8 DEF InviteStep

LEMMA MemberInviteEffect ==
    ASSUME InviteTypes, SpentWhenAccepted, NEW i \in Invites, NEW e \in Emails,
           NEW res \in Resources, NEW role \in Roles \cup {NONE}, MemberInvite(i, e, res, role)
    PROVE  InviteStep
<1> DEFINE new == [email |-> e, res |-> res, role |-> role, state |-> "pending"]
<1>1. new \in Invite
  BY DEF MemberInvite, Invite
<1>2. invites[i] = NONE /\ acceptedBy[i] = {}
  BY DEF MemberInvite, SpentWhenAccepted
<1>3. invites' = [invites EXCEPT ![i] = new] /\ acceptedBy' = acceptedBy
  BY DEF MemberInvite
<1> HIDE DEF new
<1>4. InviteTypes'
  BY <1>1, <1>3 DEF InviteTypes
<1>5. /\ acceptedBy'[i] = {}
      /\ \A j \in Invites \ {i} : invites'[j] = invites[j] /\ acceptedBy'[j] = acceptedBy[j]
  BY <1>2, <1>3 DEF InviteTypes
<1> QED BY <1>2, <1>4, <1>5 DEF InviteStep, SpentWhenAccepted, InvitesKept

LEMMA InviteExpireEffect ==
    ASSUME InviteTypes, SpentWhenAccepted, NEW i \in Invites, InviteExpire(i)
    PROVE  InviteStep
<1> DEFINE new == [invites[i] EXCEPT !.state = "expired"]
<1>1. /\ invites[i] \in Invite /\ acceptedBy[i] = {}
  BY DEF InviteExpire, InviteTypes, SpentWhenAccepted
<1>2. new \in Invite
  BY <1>1 DEF Invite
<1>3. invites' = [invites EXCEPT ![i] = new] /\ acceptedBy' = acceptedBy
  BY DEF InviteExpire
<1> HIDE DEF new
<1>4. InviteTypes'
  BY <1>2, <1>3 DEF InviteTypes
<1>5. /\ acceptedBy'[i] = {}
      /\ \A j \in Invites \ {i} : invites'[j] = invites[j] /\ acceptedBy'[j] = acceptedBy[j]
  BY <1>1, <1>3 DEF InviteTypes
<1> QED BY <1>1, <1>4, <1>5 DEF InviteStep, SpentWhenAccepted, InvitesKept

-----------------------------------------------------------------------------
(* What a step does to the memberships                                     *)

\* A row after a step: as it was, gone, given by hand, by an invitation to this
\* person, or by provisioning that does not pass over the directory.
RowGiven(u, res) ==
    LET row == memberships'[u][res]
        o == OrgOf(res)
    IN  \/ row \in {memberships[u][res], NONE}
        \/ row.source = "manual"
        \/ /\ row.source = "invite"
           /\ \E i \in Invites : acceptedBy'[i] = {u} /\ invites'[i].res = res
                                 /\ invites'[i].role = row.role
        \/ /\ o \in Orgs /\ ~(scim[o][u] = "inactive" /\ scim'[o][u] = "inactive")
           /\ \/ row.source = "idp"
              \/ row.source \in {"jit", "scim"} /\ NoOwnerRow(row) /\ roles' = roles

\* No organisation loses its last owner but by the two unguarded steps.
OwnersSafe ==
    \A o \in AllOrgs : OwnerLost(o) =>
        \/ \E u \in Users : users[u].state = "live" /\ users'[u].state = "deleted"
        \/ \E r \in Roles : roles[r].org \notin {o, NONE} /\ roles'[r] # roles[r]

StepOK ==
    /\ MembershipTypes'
    /\ \A u \in Users, res \in Resources : RowGiven(u, res)
    /\ OwnersSafe

LEMMA OwnersSafeKept ==
    ASSUME OwnersKept(memberships, memberships'), LiveKept, roles' = roles
    PROVE  OwnersSafe
<1> SUFFICES ASSUME NEW o \in AllOrgs, OwnerLost(o) PROVE FALSE
  BY DEF OwnersSafe
<1>1. PICK u \in OrgOwners(users, memberships', roles, o) : TRUE
  BY DEF OwnerLost, OwnersKept
<1>2. u \in OrgOwners(users', memberships', roles', o)
  BY <1>1 DEF OrgOwners, LiveKept, IsLive
<1> QED BY <1>2 DEF OwnerLost

LEMMA SameMemberships ==
    ASSUME MembershipTypes, LiveKept, UNCHANGED <<memberships, roles>> PROVE StepOK
<1>1. OwnersKept(memberships, memberships')
  BY DEF OwnersKept
<1>2. \A u \in Users, res \in Resources : RowGiven(u, res)
  BY DEF RowGiven
<1> QED BY <1>1, <1>2, OwnersSafeKept DEF StepOK, MembershipTypes

\* A row given by hand where there was none.
LEMMA ManualRow ==
    ASSUME MembershipTypes, LiveKept, UNCHANGED roles,
           NEW u \in Users, NEW res \in Resources, NEW row \in Row,
           row.source = "manual", memberships[u][res] = NONE,
           memberships' = [memberships EXCEPT ![u][res] = row]
    PROVE  StepOK
<1>0. memberships \in Tables
  BY DEF MembershipTypes
<1>1. /\ memberships' \in Tables /\ memberships'[u][res] = row
      /\ \A v \in Users, r \in Resources : v # u \/ r # res => memberships'[v][r] = memberships[v][r]
  <2>1. memberships[u] \in [Resources -> Row \cup {NONE}]
    BY <1>0 DEF Tables
  <2> DEFINE mine == [memberships[u] EXCEPT ![res] = row]
  <2>2. /\ mine \in [Resources -> Row \cup {NONE}] /\ mine[res] = row
        /\ \A r \in Resources : r # res => mine[r] = memberships[u][r]
    BY <2>1
  <2>3. memberships' = [memberships EXCEPT ![u] = mine]
    OBVIOUS
  <2> HIDE DEF mine
  <2>4. memberships' \in Tables /\ memberships'[u] = mine
        /\ \A v \in Users \ {u} : memberships'[v] = memberships[v]
    BY <1>0, <2>2, <2>3 DEF Tables
  <2> QED BY <2>2, <2>4
<1>2. OwnersKept(memberships, memberships')
  BY <1>0, RowAdded
<1>3. \A v \in Users, r \in Resources : RowGiven(v, r)
  BY <1>1 DEF RowGiven
<1> QED BY <1>1, <1>2, <1>3, OwnersSafeKept DEF StepOK, MembershipTypes

\* Provisioning of a user who is not and does not stay inactive.
LEMMA ProvisionedStep ==
    ASSUME LiveKept, UNCHANGED roles, NEW o \in Orgs, NEW u \in Users,
           Changed(memberships, memberships', o, u),
           ~(scim[o][u] = "inactive" /\ scim'[o][u] = "inactive") \/ memberships' = memberships
    PROVE  StepOK
<1>1. ASSUME NEW v \in Users, NEW res \in Resources PROVE RowGiven(v, res)
  <2>1. CASE v # u \/ OrgOf(res) # o \/ memberships' = memberships
    BY <2>1 DEF Changed, RowGiven
  <2>2. CASE v = u /\ OrgOf(res) = o /\ memberships' # memberships
    BY <2>2 DEF Changed, Provisioned, RowGiven
  <2> QED BY <2>1, <2>2
<1> QED BY <1>1, OwnersSafeKept DEF StepOK, Changed, MembershipTypes

\* Group changes in the directory.
LEMMA SyncedStep ==
    ASSUME LiveKept, UNCHANGED <<roles, scim>>, NEW o \in Orgs,
           SyncedFrom(memberships, memberships', scim, o)
    PROVE  StepOK
<1>1. ASSUME NEW v \in Users, NEW res \in Resources PROVE RowGiven(v, res)
  BY DEF SyncedFrom, Provisioned, RowGiven
<1> QED BY <1>1, OwnersSafeKept DEF StepOK, SyncedFrom, MembershipTypes

-----------------------------------------------------------------------------
(* Every step                                                              *)

\* Roles, settings, mappings, domains and the directory's tables.
OtherTypes ==
    /\ OrgTypes /\ RoleTypes /\ SsoTypes /\ MappingTypes /\ VerifiedTypes /\ ScimTypes
    /\ GroupTypes /\ ChangeTypes

LEMMA OtherTypesStay ==
    /\ OrgTypes /\ UNCHANGED orgs => OrgTypes'
    /\ RoleTypes /\ UNCHANGED roles => RoleTypes'
    /\ SsoTypes /\ UNCHANGED sso => SsoTypes'
    /\ MappingTypes /\ UNCHANGED mappings => MappingTypes'
    /\ VerifiedTypes /\ UNCHANGED verified => VerifiedTypes'
    /\ ScimTypes /\ UNCHANGED scim => ScimTypes'
    /\ GroupTypes /\ UNCHANGED groups => GroupTypes'
    /\ ChangeTypes /\ UNCHANGED changes => ChangeTypes'
  BY DEF OrgTypes, RoleTypes, SsoTypes, MappingTypes, VerifiedTypes, ScimTypes, GroupTypes, ChangeTypes

\* A step that leaves users and memberships alone, and roles too.
LEMMA NothingGiven ==
    UserTypes /\ MembershipTypes /\ UNCHANGED <<users, memberships, roles>> => UserTypes' /\ StepOK
<1> SUFFICES ASSUME UserTypes, MembershipTypes, UNCHANGED <<users, memberships, roles>>
             PROVE  UserTypes' /\ StepOK
  OBVIOUS
<1>1. LiveKept
  BY DEF LiveKept, IsLive
<1> QED BY <1>1, SameMemberships DEF UserTypes

LEMMA ReconfigureTypes == ChangeTypes /\ Reconfigure => ChangeTypes'
  BY TenancyAssumption DEF ChangeTypes, Reconfigure

\* What each step has to keep.
StepInv == OtherTypes' /\ UserTypes' /\ InviteStep /\ UnmadeRoles' /\ StepOK

\* The tables that handlers of people and sign-ins leave alone.
LEMMA MembershipOnlyKeeps ==
    ASSUME OtherTypes, UnmadeRoles, MembershipOnly, ScimTypes'
    PROVE  OtherTypes' /\ UnmadeRoles' /\ UNCHANGED roles
<1>1. OtherTypes'
  BY OtherTypesStay DEF OtherTypes, MembershipOnly
<1> QED BY <1>1 DEF MembershipOnly, UnmadeRoles

-----------------------------------------------------------------------------
(* Handlers that people call                                               *)

LEMMA OrgCreateStep ==
    ASSUME IInv, NEW u \in Users, NEW o \in Orgs, NEW r \in Roles, OrgCreate(u, o, r)
    PROVE  StepInv
<1>0. /\ OtherTypes /\ UserTypes /\ InviteTypes /\ MembershipTypes
      /\ OrgTypes /\ RoleTypes /\ UnmadeRoles /\ SpentWhenAccepted
      /\ memberships \in Tables
  BY TypeParts DEF IInv, OtherTypes, MembershipTypes
<1> DEFINE row == [role |-> r, source |-> "manual"]
           new == [memberships EXCEPT ![u][o] = row]
<1>1. /\ row \in Row /\ row.role = r /\ row.source = "manual" /\ row # NONE /\ r # NONE
  BY TenancyAssumption DEF Row, Sources
<1> HIDE DEF row
<1>2. /\ new \in Tables /\ new[u][o] = row
      /\ \A v \in Users, p \in Resources : v # u \/ p # o => new[v][p] = memberships[v][p]
  BY <1>0, <1>1, RowSet, OrgOfResource
<1>3. memberships' = new
  BY DEF OrgCreate, row
<1> HIDE DEF new
<1>4. /\ roles[r].org = NONE /\ ~roles[r].star /\ r # SysOwner
      /\ roles'[r].org = o /\ roles'[r].star = TRUE
      /\ \A q \in Roles \ {r} : roles'[q] = roles[q]
  BY <1>0 DEF OrgCreate, RoleTypes, UnmadeRoles
<1>5. RoleTypes'
  BY <1>0, OrgOfResource DEF OrgCreate, RoleTypes
<1>6. OtherTypes'
  BY <1>0, <1>5, OtherTypesStay, OrgOfResource DEF OtherTypes, OrgTypes, OrgCreate
<1>7. UnmadeRoles'
  BY <1>0, <1>4, TenancyAssumption DEF UnmadeRoles, AllOrgs
<1>8. InviteStep /\ UserTypes'
  BY <1>0, InvitesStay DEF OrgCreate, UserTypes
<1>9. \A v \in Users, res \in Resources : RowGiven(v, res)
  BY <1>1, <1>2, <1>3 DEF RowGiven
<1>10. OwnersSafe
  <2> SUFFICES ASSUME NEW p \in AllOrgs, OwnerLost(p) PROVE FALSE
    BY DEF OwnersSafe
  <2>1. PICK v \in OrgOwners(users, memberships, roles, p) : TRUE
    BY DEF OwnerLost
  <2>2. CASE v = u /\ p = o
    <3>1. u \in OrgOwners(users', memberships', roles', o)
      BY <1>1, <1>2, <1>3, <1>4 DEF OrgOwners, OwnerEquivalent, OrgCreate, IsLive
    <3> QED BY <2>2, <3>1 DEF OwnerLost
  <2>3. CASE v # u \/ p # o
    <3>1. memberships'[v][p] = memberships[v][p] /\ v \in Users
      BY <1>2, <1>3, <2>1, <2>3, OrgOfResource DEF OrgOwners
    <3>2. memberships[v][p].role \in Roles
      BY <1>0, <2>1, OrgOfResource DEF OrgOwners, Tables, Row
    <3>3. OwnerEquivalent(roles', memberships[v][p].role)
      BY <1>4, <2>1, <3>2 DEF OrgOwners, OwnerEquivalent
    <3>4. v \in OrgOwners(users', memberships', roles', p)
      BY <2>1, <3>1, <3>3 DEF OrgOwners, OrgCreate
    <3> QED BY <3>4 DEF OwnerLost
  <2> QED BY <2>2, <2>3
<1> QED BY <1>2, <1>3, <1>6, <1>7, <1>8, <1>9, <1>10 DEF StepInv, StepOK, MembershipTypes

LEMMA RoleCreateStep ==
    ASSUME IInv, NEW o \in AllOrgs, NEW r \in EditedRoles, NEW star \in BOOLEAN, RoleCreate(o, r, star)
    PROVE  StepInv
<1>0. /\ OtherTypes /\ UserTypes /\ InviteTypes /\ MembershipTypes
      /\ RoleTypes /\ ChangeTypes /\ UnmadeRoles /\ SpentWhenAccepted
      /\ memberships \in Tables /\ r \in Roles
  BY TypeParts, TenancyAssumption DEF IInv, OtherTypes, MembershipTypes
<1>1. /\ roles[r].org = NONE /\ ~roles[r].star /\ r # SysOwner
      /\ roles'[r].org = o /\ \A q \in Roles \ {r} : roles'[q] = roles[q]
  BY <1>0 DEF RoleCreate, RoleTypes, UnmadeRoles
<1>2. RoleTypes' /\ ChangeTypes'
  BY <1>0, ReconfigureTypes DEF RoleCreate, RoleTypes
<1>3. OtherTypes'
  BY <1>0, <1>2, OtherTypesStay DEF OtherTypes, RoleCreate
<1>4. UnmadeRoles'
  BY <1>0, <1>1, TenancyAssumption DEF UnmadeRoles
<1>5. InviteStep /\ UserTypes' /\ MembershipTypes'
  BY <1>0, InvitesStay DEF RoleCreate, UserTypes, MembershipTypes
<1>6. \A v \in Users, res \in Resources : RowGiven(v, res)
  BY DEF RoleCreate, RowGiven
<1>7. OwnersSafe
  <2> SUFFICES ASSUME NEW p \in AllOrgs, OwnerLost(p) PROVE FALSE
    BY DEF OwnersSafe
  <2>1. PICK v \in OrgOwners(users, memberships, roles, p) : TRUE
    BY DEF OwnerLost
  <2>2. memberships[v][p].role \in Roles
    BY <1>0, <2>1, OrgOfResource DEF OrgOwners, Tables, Row
  <2>3. OwnerEquivalent(roles', memberships[v][p].role)
    BY <1>1, <2>1, <2>2 DEF OrgOwners, OwnerEquivalent
  <2>4. v \in OrgOwners(users', memberships', roles', p)
    BY <2>1, <2>3 DEF OrgOwners, RoleCreate
  <2> QED BY <2>4 DEF OwnerLost
<1> QED BY <1>3, <1>4, <1>5, <1>6, <1>7 DEF StepInv, StepOK

\* role.update: the guard looks at the caller's organisation only.
LEMMA RoleUpdateStep ==
    ASSUME IInv, NEW o \in AllOrgs, NEW r \in EditedRoles, NEW star \in BOOLEAN, RoleUpdate(o, r, star)
    PROVE  StepInv
<1>0. /\ OtherTypes /\ UserTypes /\ InviteTypes /\ MembershipTypes
      /\ RoleTypes /\ ChangeTypes /\ UnmadeRoles /\ SpentWhenAccepted /\ r \in Roles
  BY TypeParts, TenancyAssumption DEF IInv, OtherTypes
<1>1. /\ roles[r].org = o /\ o # NONE /\ roles'[r].org = o /\ roles'[r].star = star
      /\ roles'[r] # roles[r] /\ \A q \in Roles \ {r} : roles'[q] = roles[q]
  BY <1>0, TenancyAssumption DEF RoleUpdate, RoleTypes
<1>2. RoleTypes' /\ ChangeTypes'
  BY <1>0, ReconfigureTypes DEF RoleUpdate, RoleTypes
<1>3. OtherTypes'
  BY <1>0, <1>2, OtherTypesStay DEF OtherTypes, RoleUpdate
<1>4. UnmadeRoles'
  BY <1>0, <1>1 DEF UnmadeRoles
<1>5. InviteStep /\ UserTypes' /\ MembershipTypes'
  BY <1>0, InvitesStay DEF RoleUpdate, UserTypes, MembershipTypes
<1>6. \A v \in Users, res \in Resources : RowGiven(v, res)
  BY DEF RoleUpdate, RowGiven
<1>7. OwnersSafe
  <2> SUFFICES ASSUME NEW p \in AllOrgs, OwnerLost(p)
               PROVE  roles[r].org \notin {p, NONE} /\ roles'[r] # roles[r]
    BY <1>0 DEF OwnersSafe
  <2>1. CASE p = o
    BY <2>1 DEF OwnerLost, RoleUpdate, OwnerGuard
  <2>2. CASE p # o
    BY <1>1, <2>2
  <2> QED BY <2>1, <2>2
<1> QED BY <1>3, <1>4, <1>5, <1>6, <1>7 DEF StepInv, StepOK

LEMMA MembershipCreateStep ==
    ASSUME IInv, NEW u \in Users, NEW res \in Resources, NEW role \in Roles \cup {NONE},
           MembershipCreate(u, res, role)
    PROVE  StepInv
<1>0. /\ OtherTypes /\ UserTypes /\ InviteTypes /\ MembershipTypes
      /\ ScimTypes /\ UnmadeRoles /\ SpentWhenAccepted
  BY TypeParts DEF IInv, OtherTypes
<1> DEFINE row == [role |-> role, source |-> "manual"]
<1>1. row \in Row /\ row.source = "manual"
  BY DEF Row, Sources
<1>2. /\ memberships[u][res] = NONE /\ memberships' = [memberships EXCEPT ![u][res] = row]
      /\ MembershipOnly /\ UNCHANGED <<users, invites, acceptedBy, scim>>
  BY DEF MembershipCreate
<1> HIDE DEF row
<1>3. OtherTypes' /\ UnmadeRoles' /\ roles' = roles
  BY <1>0, <1>2, MembershipOnlyKeeps, OtherTypesStay
<1>4. InviteStep /\ UserTypes' /\ LiveKept
  BY <1>0, <1>2, InvitesStay DEF UserTypes, LiveKept, IsLive
<1>5. StepOK
  BY <1>0, <1>1, <1>2, <1>3, <1>4, ManualRow
<1> QED BY <1>3, <1>4, <1>5 DEF StepInv

\* membership.delete and member.remove, behind the guard.
LEMMA DeleteMembershipStep ==
    ASSUME IInv, NEW u \in Users, NEW res \in Resources, DeleteMembership(u, res),
           OwnerGuard(memberships', roles, OrgOf(res))
    PROVE  StepInv
<1>0. /\ OtherTypes /\ UserTypes /\ InviteTypes /\ MembershipTypes
      /\ ScimTypes /\ UnmadeRoles /\ SpentWhenAccepted /\ memberships \in Tables
  BY TypeParts DEF IInv, OtherTypes, MembershipTypes
<1>1. /\ memberships' = [memberships EXCEPT ![u][res] = NONE]
      /\ MembershipOnly /\ UNCHANGED <<users, invites, acceptedBy, scim>>
  BY DEF DeleteMembership
<1> DEFINE new == [memberships EXCEPT ![u][res] = NONE]
<1>2. /\ new \in Tables /\ new[u][res] = NONE
      /\ \A v \in Users, p \in Resources : v # u \/ p # res => new[v][p] = memberships[v][p]
  BY <1>0, RowSet
<1>3. memberships' = new
  BY <1>1
<1> HIDE DEF new
<1>4. OtherTypes' /\ UnmadeRoles' /\ roles' = roles
  BY <1>0, <1>1, MembershipOnlyKeeps, OtherTypesStay
<1>5. InviteStep /\ UserTypes'
  BY <1>0, <1>1, InvitesStay DEF UserTypes
<1>6. \A v \in Users, p \in Resources : RowGiven(v, p)
  BY <1>2, <1>3 DEF RowGiven
<1>7. OwnersSafe
  <2> SUFFICES ASSUME NEW p \in AllOrgs, OwnerLost(p) PROVE FALSE
    BY DEF OwnersSafe
  <2>1. CASE p = OrgOf(res)
    BY <1>1, <1>4, <2>1 DEF OwnerLost, OwnerGuard
  <2>2. CASE p # OrgOf(res)
    <3>1. p # res /\ p \in Resources
      BY <2>2, OrgOfResource
    <3>2. \A v \in Users : memberships'[v][p] = memberships[v][p]
      BY <1>2, <1>3, <3>1
    <3>3. OrgOwners(users', memberships', roles', p) = OrgOwners(users, memberships, roles, p)
      BY <1>1, <1>4, <3>2 DEF OrgOwners
    <3> QED BY <3>3 DEF OwnerLost
  <2> QED BY <2>1, <2>2
<1> QED BY <1>2, <1>3, <1>4, <1>5, <1>6, <1>7 DEF StepInv, StepOK, MembershipTypes

LEMMA UserDeleteStep ==
    ASSUME IInv, NEW u \in Users, UserDelete(u)
    PROVE  StepInv
<1>0. /\ OtherTypes /\ UserTypes /\ InviteTypes /\ MembershipTypes
      /\ ScimTypes /\ UnmadeRoles /\ SpentWhenAccepted
  BY TypeParts DEF IInv, OtherTypes
<1>1. OtherTypes' /\ UnmadeRoles'
  BY <1>0, MembershipOnlyKeeps, OtherTypesStay DEF UserDelete
<1>2. InviteStep
  BY <1>0, InvitesStay DEF UserDelete
<1>3. /\ UserTypes' /\ users[u].state = "live" /\ users'[u].state = "deleted"
  BY <1>0 DEF UserDelete, UserTypes, IsLive
<1>4. /\ memberships' \in Tables
      /\ \A v \in Users, res \in Resources : memberships'[v][res] \in {memberships[v][res], NONE}
  BY <1>0 DEF UserDelete, MembershipTypes, Tables
<1>5. OwnersSafe
  BY <1>3 DEF OwnersSafe
<1>6. StepOK
  BY <1>4, <1>5 DEF StepOK, RowGiven, MembershipTypes
<1> QED BY <1>1, <1>2, <1>3, <1>6 DEF StepInv

LEMMA MemberInviteStep ==
    ASSUME IInv, NEW i \in Invites, NEW e \in Emails, NEW res \in Resources,
           NEW role \in Roles \cup {NONE}, MemberInvite(i, e, res, role)
    PROVE  StepInv
<1>0. /\ OtherTypes /\ UserTypes /\ InviteTypes /\ MembershipTypes
      /\ ScimTypes /\ UnmadeRoles /\ SpentWhenAccepted
  BY TypeParts DEF IInv, OtherTypes
<1>1. OtherTypes' /\ UnmadeRoles' /\ roles' = roles
  BY <1>0, MembershipOnlyKeeps, OtherTypesStay DEF MemberInvite
<1>2. InviteStep
  BY <1>0, MemberInviteEffect
<1>3. UserTypes' /\ StepOK
  BY <1>0, <1>1, NothingGiven DEF MemberInvite
<1> QED BY <1>1, <1>2, <1>3 DEF StepInv

LEMMA InviteExpireStep ==
    ASSUME IInv, NEW i \in Invites, InviteExpire(i)
    PROVE  StepInv
<1>0. /\ OtherTypes /\ UserTypes /\ InviteTypes /\ MembershipTypes
      /\ ScimTypes /\ UnmadeRoles /\ SpentWhenAccepted
  BY TypeParts DEF IInv, OtherTypes
<1>1. OtherTypes' /\ UnmadeRoles' /\ roles' = roles
  BY <1>0, MembershipOnlyKeeps, OtherTypesStay DEF InviteExpire
<1>2. InviteStep
  BY <1>0, InviteExpireEffect
<1>3. UserTypes' /\ StepOK
  BY <1>0, <1>1, NothingGiven DEF InviteExpire
<1> QED BY <1>1, <1>2, <1>3 DEF StepInv

\* The row of an accepted invitation, in a table that has none there.
Joined(i, u) == [memberships EXCEPT ![u][invites[i].res] = InviteRow(i)]

LEMMA InvitedRow ==
    ASSUME InviteTypes, SpentWhenAccepted, MembershipTypes, NEW i \in Invites, NEW u \in Users,
           AcceptInvite(i, u)
    PROVE  /\ Joined(i, u) \in Tables /\ OwnersKept(memberships, Joined(i, u))
           /\ Joined(i, u)[u][invites[i].res] = InviteRow(i)
           /\ InviteRow(i).source = "invite" /\ InviteRow(i).role = invites[i].role
           /\ \A v \in Users, r \in Resources :
                 v # u \/ r # invites[i].res => Joined(i, u)[v][r] = memberships[v][r]
<1> DEFINE res == invites[i].res
           row == InviteRow(i)
<1>1. /\ invites[i] \in Invite /\ memberships[u][res] = NONE
  BY AcceptInviteEffect
<1>2. /\ row \in Row /\ row.source = "invite" /\ row.role = invites[i].role
  BY <1>1 DEF InviteRow, Row, Sources, Invite
<1>3. res \in Resources /\ memberships \in Tables
  BY <1>1 DEF Invite, MembershipTypes
<1>4. Joined(i, u) = [memberships EXCEPT ![u][res] = row]
  BY DEF Joined
<1> HIDE DEF res, row
<1>5. /\ [memberships EXCEPT ![u][res] = row] \in Tables
      /\ [memberships EXCEPT ![u][res] = row][u][res] = row
      /\ \A v \in Users, r \in Resources :
            v # u \/ r # res => [memberships EXCEPT ![u][res] = row][v][r] = memberships[v][r]
  BY <1>2, <1>3, RowSet
<1>6. OwnersKept(memberships, [memberships EXCEPT ![u][res] = row])
  BY <1>1, <1>2, <1>3, RowAdded
<1> QED BY <1>2, <1>4, <1>5, <1>6 DEF res, row

LEMMA InviteAcceptStep ==
    ASSUME IInv, NEW i \in Invites, NEW u \in Users, InviteAccept(i, u)
    PROVE  StepInv
<1>0. /\ OtherTypes /\ UserTypes /\ InviteTypes /\ MembershipTypes
      /\ ScimTypes /\ UnmadeRoles /\ SpentWhenAccepted
  BY TypeParts DEF IInv, OtherTypes
<1>1. /\ AcceptInvite(i, u) /\ MembershipOnly /\ UNCHANGED <<users, scim>>
      /\ memberships' = Joined(i, u)
  BY DEF InviteAccept, Joined
<1>2. OtherTypes' /\ UnmadeRoles' /\ roles' = roles
  BY <1>0, <1>1, MembershipOnlyKeeps, OtherTypesStay
<1>3. /\ InviteStep /\ acceptedBy'[i] = {u} /\ invites'[i].res = invites[i].res
      /\ invites'[i].role = invites[i].role
  BY <1>0, <1>1, AcceptInviteEffect
<1>4. /\ memberships' \in Tables /\ OwnersKept(memberships, memberships')
      /\ memberships'[u][invites[i].res] = InviteRow(i)
      /\ InviteRow(i).source = "invite" /\ InviteRow(i).role = invites[i].role
      /\ \A v \in Users, r \in Resources :
            v # u \/ r # invites[i].res => memberships'[v][r] = memberships[v][r]
  BY <1>0, <1>1, InvitedRow
<1>5. UserTypes' /\ LiveKept
  BY <1>0, <1>1 DEF UserTypes, LiveKept, IsLive
<1>6. ASSUME NEW v \in Users, NEW res \in Resources PROVE RowGiven(v, res)
  <2>1. CASE v = u /\ res = invites[i].res
    BY <1>3, <1>4, <2>1 DEF RowGiven
  <2>2. CASE v # u \/ res # invites[i].res
    BY <1>4, <2>2 DEF RowGiven
  <2> QED BY <2>1, <2>2
<1>7. StepOK
  BY <1>2, <1>4, <1>5, <1>6, OwnersSafeKept DEF StepOK, MembershipTypes
<1> QED BY <1>2, <1>3, <1>5, <1>7 DEF StepInv

-----------------------------------------------------------------------------
(* Sign-in                                                                 *)

LEMMA SignUpOpenStep ==
    ASSUME IInv, NEW u \in Users, NEW e \in Emails, SignUpOpen(u, e)
    PROVE  StepInv
<1>0. /\ OtherTypes /\ UserTypes /\ InviteTypes /\ MembershipTypes
      /\ ScimTypes /\ UnmadeRoles /\ SpentWhenAccepted
  BY TypeParts DEF IInv, OtherTypes
<1>1. OtherTypes' /\ UnmadeRoles' /\ roles' = roles
  BY <1>0, MembershipOnlyKeeps, OtherTypesStay DEF SignUpOpen
<1>2. InviteStep
  BY <1>0, InvitesStay DEF SignUpOpen
<1>3. UserTypes' /\ LiveKept
  BY <1>0, CreateUserEffect DEF SignUpOpen
<1>4. StepOK
  BY <1>0, <1>1, <1>3, SameMemberships DEF SignUpOpen
<1> QED BY <1>1, <1>2, <1>3, <1>4 DEF StepInv

LEMMA SignInAdminStep ==
    ASSUME IInv, NEW u \in Users, SignInAdmin(u)
    PROVE  StepInv
<1>0. /\ OtherTypes /\ UserTypes /\ InviteTypes /\ MembershipTypes
      /\ ScimTypes /\ UnmadeRoles /\ SpentWhenAccepted
  BY TypeParts DEF IInv, OtherTypes
<1> DEFINE row == [role |-> SysOwner, source |-> "manual"]
<1>1. row \in Row /\ row.source = "manual" /\ Platform \in Resources
  BY TenancyAssumption DEF Row, Sources, SysRoles, Resources, AllOrgs
<1>2. /\ memberships[u][Platform] = NONE /\ memberships' = [memberships EXCEPT ![u][Platform] = row]
      /\ MembershipOnly /\ UNCHANGED <<users, invites, acceptedBy, scim>>
  BY DEF SignInAdmin
<1> HIDE DEF row
<1>3. OtherTypes' /\ UnmadeRoles' /\ roles' = roles
  BY <1>0, <1>2, MembershipOnlyKeeps, OtherTypesStay
<1>4. InviteStep /\ UserTypes' /\ LiveKept
  BY <1>0, <1>2, InvitesStay DEF UserTypes, LiveKept, IsLive
<1>5. StepOK
  BY <1>0, <1>1, <1>2, <1>3, <1>4, ManualRow
<1> QED BY <1>3, <1>4, <1>5 DEF StepInv

LEMMA SignInOrgStep ==
    ASSUME IInv, NEW u \in Users, NEW o \in Orgs, NEW prov, NEW d, NEW claim,
           SignInOrg(u, o, prov, d, claim)
    PROVE  StepInv
<1>0. /\ OtherTypes /\ UserTypes /\ InviteTypes /\ MembershipTypes /\ SsoTypes /\ MappingTypes
      /\ ScimTypes /\ UnmadeRoles /\ SpentWhenAccepted /\ memberships \in Tables
  BY TypeParts DEF IInv, OtherTypes, MembershipTypes
<1>1. /\ memberships' = OrgProvisioning(memberships, o, u, prov, d, claim)
      /\ MembershipOnly /\ UNCHANGED <<users, invites, acceptedBy, scim>>
  BY DEF SignInOrg
<1>2. OtherTypes' /\ UnmadeRoles' /\ roles' = roles
  BY <1>0, <1>1, MembershipOnlyKeeps, OtherTypesStay
<1>3. InviteStep /\ UserTypes' /\ LiveKept
  BY <1>0, <1>1, InvitesStay DEF UserTypes, LiveKept, IsLive
<1>4. /\ Changed(memberships, memberships', o, u)
      /\ scim[o][u] # NONE => memberships' = memberships
  BY <1>0, <1>1, OrgProvisioningChanges
<1>5. scim[o][u] = "inactive" => memberships' = memberships
  BY <1>4, TenancyAssumption
<1>6. StepOK
  BY <1>2, <1>3, <1>4, <1>5, ProvisionedStep
<1> QED BY <1>2, <1>3, <1>6 DEF StepInv

LEMMA SignUpJITStep ==
    ASSUME IInv, NEW u \in Users, NEW o \in Orgs, NEW prov, NEW e \in Emails, NEW claim,
           SignUpJIT(u, o, prov, e, claim)
    PROVE  StepInv
<1>0. /\ OtherTypes /\ UserTypes /\ InviteTypes /\ MembershipTypes /\ SsoTypes /\ MappingTypes
      /\ ScimTypes /\ UnmadeRoles /\ SpentWhenAccepted /\ memberships \in Tables
  BY TypeParts DEF IInv, OtherTypes, MembershipTypes
<1>1. /\ memberships' = OrgProvisioning(memberships, o, u, prov, DomainOf[e], claim)
      /\ CreateUser(u, e) /\ MembershipOnly /\ UNCHANGED <<invites, acceptedBy, scim>>
  BY DEF SignUpJIT
<1>2. OtherTypes' /\ UnmadeRoles' /\ roles' = roles
  BY <1>0, <1>1, MembershipOnlyKeeps, OtherTypesStay
<1>3. InviteStep /\ UserTypes' /\ LiveKept
  BY <1>0, <1>1, InvitesStay, CreateUserEffect
<1>4. /\ Changed(memberships, memberships', o, u)
      /\ scim[o][u] # NONE => memberships' = memberships
  BY <1>0, <1>1, OrgProvisioningChanges
<1>5. scim[o][u] = "inactive" => memberships' = memberships
  BY <1>4, TenancyAssumption
<1>6. StepOK
  BY <1>2, <1>3, <1>4, <1>5, ProvisionedStep
<1> QED BY <1>2, <1>3, <1>6 DEF StepInv

\* The invitation's row first, then what the provider's organisation gives.
LEMMA SignUpInviteStep ==
    ASSUME IInv, NEW u \in Users, NEW i \in Invites, NEW o \in Orgs \cup {NONE}, NEW prov, NEW d,
           NEW claim, SignUpInvite(u, i, o, prov, d, claim)
    PROVE  StepInv
<1>0. /\ OtherTypes /\ UserTypes /\ InviteTypes /\ MembershipTypes /\ SsoTypes /\ MappingTypes
      /\ ScimTypes /\ UnmadeRoles /\ SpentWhenAccepted
  BY TypeParts DEF IInv, OtherTypes
<1>1. /\ CreateUser(u, invites[i].email) /\ AcceptInvite(i, u) /\ MembershipOnly /\ UNCHANGED scim
      /\ memberships' = IF o = NONE THEN Joined(i, u)
                        ELSE OrgProvisioning(Joined(i, u), o, u, prov, d, claim)
  BY DEF SignUpInvite, Joined
<1>2. OtherTypes' /\ UnmadeRoles' /\ roles' = roles
  BY <1>0, <1>1, MembershipOnlyKeeps, OtherTypesStay
<1>3. /\ InviteStep /\ acceptedBy'[i] = {u} /\ invites'[i].res = invites[i].res
      /\ invites'[i].role = invites[i].role /\ invites[i] \in Invite
  BY <1>0, <1>1, AcceptInviteEffect
<1>4. invites[i].email \in Emails
  BY <1>3 DEF Invite
<1>5. UserTypes' /\ LiveKept
  BY <1>0, <1>1, <1>4, CreateUserEffect
<1> DEFINE joined == Joined(i, u)
<1>6. /\ joined \in Tables /\ OwnersKept(memberships, joined)
      /\ joined[u][invites[i].res] = InviteRow(i)
      /\ InviteRow(i).source = "invite" /\ InviteRow(i).role = invites[i].role
      /\ \A v \in Users, r \in Resources :
            v # u \/ r # invites[i].res => joined[v][r] = memberships[v][r]
  BY <1>0, <1>1, InvitedRow
<1>7. /\ o = NONE => memberships' = joined
      /\ o # NONE => /\ o \in Orgs /\ Changed(joined, memberships', o, u)
                     /\ scim[o][u] # NONE => memberships' = joined
  BY <1>0, <1>1, <1>6, OrgProvisioningChanges
<1> HIDE DEF joined
<1>8. ASSUME NEW v \in Users, NEW res \in Resources, memberships'[v][res] = joined[v][res]
      PROVE  RowGiven(v, res)
  <2>1. CASE v = u /\ res = invites[i].res
    BY <1>3, <1>6, <1>8, <2>1 DEF RowGiven
  <2>2. CASE v # u \/ res # invites[i].res
    BY <1>6, <1>8, <2>2 DEF RowGiven
  <2> QED BY <2>1, <2>2
<1>9. ASSUME NEW v \in Users, NEW res \in Resources PROVE RowGiven(v, res)
  <2>1. CASE memberships'[v][res] = joined[v][res]
    BY <1>8, <2>1
  <2>2. CASE memberships'[v][res] # joined[v][res]
    <3>1. /\ o \in Orgs /\ Changed(joined, memberships', o, u) /\ scim[o][u] = NONE
      BY <1>7, <2>2
    <3>2. /\ v = u /\ OrgOf(res) = o
          /\ Provisioned(joined[v][res], memberships'[v][res], o, res)
      BY <2>2, <3>1 DEF Changed
    <3>3. scim[o][u] # "inactive"
      BY <3>1, TenancyAssumption
    <3> QED BY <1>2, <2>2, <3>1, <3>2, <3>3 DEF Provisioned, RowGiven
  <2> QED BY <2>1, <2>2
<1>10. memberships' \in Tables /\ OwnersKept(memberships, memberships')
  BY <1>6, <1>7 DEF Changed, OwnersKept
<1>11. StepOK
  BY <1>2, <1>5, <1>9, <1>10, OwnersSafeKept DEF StepOK, MembershipTypes
<1> QED BY <1>2, <1>3, <1>5, <1>11 DEF StepInv

-----------------------------------------------------------------------------
(* The directory's requests                                                *)

\* The directory's requests about one user: only scim and memberships change.
LEMMA ScimTable ==
    ASSUME ScimTypes, NEW o \in Orgs, NEW u \in Users, NEW x \in {NONE, "active", "inactive"},
           scim' = [scim EXCEPT ![o][u] = x]
    PROVE  ScimTypes' /\ scim'[o][u] = x
  BY DEF ScimTypes

LEMMA ScimCreateUserStep ==
    ASSUME IInv, NEW o \in Orgs, NEW u \in Users, NEW e \in Emails, NEW active \in BOOLEAN,
           ScimCreateUser(o, u, e, active)
    PROVE  StepInv
<1>0. /\ OtherTypes /\ UserTypes /\ InviteTypes /\ MembershipTypes /\ SsoTypes
      /\ ScimTypes /\ UnmadeRoles /\ SpentWhenAccepted /\ memberships \in Tables
  BY TypeParts DEF IInv, OtherTypes, MembershipTypes
<1>1. /\ scim[o][u] = NONE /\ MembershipOnly /\ UNCHANGED <<invites, acceptedBy>>
      /\ scim' = [scim EXCEPT ![o][u] = IF active THEN "active" ELSE "inactive"]
      /\ memberships' = IF active THEN GrantMembership(memberships, o, u) ELSE memberships
      /\ UNCHANGED users \/ CreateUser(u, e)
  BY DEF ScimCreateUser
<1>2. ScimTypes'
  BY <1>0, <1>1, ScimTable
<1>3. OtherTypes' /\ UnmadeRoles' /\ roles' = roles
  BY <1>0, <1>1, <1>2, MembershipOnlyKeeps
<1>4. InviteStep
  BY <1>0, <1>1, InvitesStay
<1>5. UserTypes' /\ LiveKept
  <2>1. CASE UNCHANGED users
    BY <1>0, <2>1 DEF UserTypes, LiveKept, IsLive
  <2> QED BY <1>0, <1>1, <2>1, CreateUserEffect
<1>6. Changed(memberships, memberships', o, u)
  BY <1>0, <1>1, GrantMembershipChanges, ChangedReflexive
<1>7. scim[o][u] # "inactive"
  BY <1>1, TenancyAssumption
<1>8. StepOK
  BY <1>3, <1>5, <1>6, <1>7, ProvisionedStep
<1> QED BY <1>3, <1>4, <1>5, <1>8 DEF StepInv

LEMMA ScimDeactivateStep ==
    ASSUME IInv, NEW o \in Orgs, NEW u \in Users, ScimDeactivate(o, u)
    PROVE  StepInv
<1>0. /\ OtherTypes /\ UserTypes /\ InviteTypes /\ MembershipTypes
      /\ ScimTypes /\ UnmadeRoles /\ SpentWhenAccepted
  BY TypeParts DEF IInv, OtherTypes
<1>1. /\ scim[o][u] = "active" /\ scim' = [scim EXCEPT ![o][u] = "inactive"]
      /\ memberships' = Deprovision(o, u) /\ MembershipOnly
      /\ UNCHANGED <<users, invites, acceptedBy>>
  BY DEF ScimDeactivate
<1>2. ScimTypes'
  BY <1>0, <1>1, ScimTable
<1>3. OtherTypes' /\ UnmadeRoles' /\ roles' = roles
  BY <1>0, <1>1, <1>2, MembershipOnlyKeeps
<1>4. InviteStep /\ UserTypes' /\ LiveKept
  BY <1>0, <1>1, InvitesStay DEF UserTypes, LiveKept, IsLive
<1>5. Changed(memberships, memberships', o, u)
  BY <1>0, <1>1, DeprovisionChanges
<1>6. StepOK
  BY <1>1, <1>3, <1>4, <1>5, ProvisionedStep
<1> QED BY <1>3, <1>4, <1>6 DEF StepInv

LEMMA ScimReactivateStep ==
    ASSUME IInv, NEW o \in Orgs, NEW u \in Users, ScimReactivate(o, u)
    PROVE  StepInv
<1>0. /\ OtherTypes /\ UserTypes /\ InviteTypes /\ MembershipTypes /\ SsoTypes /\ MappingTypes
      /\ ScimTypes /\ UnmadeRoles /\ SpentWhenAccepted /\ memberships \in Tables
  BY TypeParts DEF IInv, OtherTypes, MembershipTypes
<1> DEFINE granted == GrantMembership(memberships, o, u)
<1>1. /\ scim' = [scim EXCEPT ![o][u] = "active"]
      /\ memberships' = SyncUser(granted, scim', groups, o, u) /\ MembershipOnly
      /\ UNCHANGED <<users, invites, acceptedBy>>
  BY DEF ScimReactivate
<1>2. ScimTypes' /\ scim'[o][u] = "active"
  BY <1>0, <1>1, ScimTable
<1>3. OtherTypes' /\ UnmadeRoles' /\ roles' = roles
  BY <1>0, <1>1, <1>2, MembershipOnlyKeeps
<1>4. InviteStep /\ UserTypes' /\ LiveKept
  BY <1>0, <1>1, InvitesStay DEF UserTypes, LiveKept, IsLive
<1>5. Changed(memberships, granted, o, u) /\ granted \in Tables
  BY <1>0, GrantMembershipChanges DEF Changed
<1> HIDE DEF granted
<1>6. Changed(granted, memberships', o, u)
  BY <1>0, <1>1, <1>5, SyncUserChanges
<1>7. Changed(memberships, memberships', o, u)
  BY <1>5, <1>6, ChangedTransitive
<1>8. StepOK
  BY <1>2, <1>3, <1>4, <1>7, ProvisionedStep
<1> QED BY <1>3, <1>4, <1>8 DEF StepInv

LEMMA ScimDeleteUserStep ==
    ASSUME IInv, NEW o \in Orgs, NEW u \in Users, ScimDeleteUser(o, u)
    PROVE  StepInv
<1>0. /\ OtherTypes /\ UserTypes /\ InviteTypes /\ MembershipTypes /\ GroupTypes
      /\ ScimTypes /\ UnmadeRoles /\ SpentWhenAccepted
  BY TypeParts DEF IInv, OtherTypes
<1> DEFINE left == [g \in Directory |->
                      IF groups[o][g] = NONE THEN NONE
                      ELSE [groups[o][g] EXCEPT !.members = @ \ {u}]]
<1>1. /\ scim' = [scim EXCEPT ![o][u] = NONE] /\ memberships' = Deprovision(o, u)
      /\ groups' = [groups EXCEPT ![o] = left]
      /\ UNCHANGED <<orgs, users, roles, invites, acceptedBy, sso, mappings, verified, changes>>
  BY DEF ScimDeleteUser
<1>2. ScimTypes' /\ scim'[o][u] # "inactive"
  BY <1>0, <1>1, ScimTable, TenancyAssumption
<1>3. left \in [Directory -> [name : Groups, members : SUBSET Users] \cup {NONE}]
  BY <1>0 DEF GroupTypes
<1> HIDE DEF left
<1>4. GroupTypes'
  BY <1>0, <1>1, <1>3 DEF GroupTypes
<1>5. OtherTypes' /\ UnmadeRoles' /\ roles' = roles
  BY <1>0, <1>1, <1>2, <1>4, OtherTypesStay DEF OtherTypes, UnmadeRoles
<1>6. InviteStep /\ UserTypes' /\ LiveKept
  BY <1>0, <1>1, InvitesStay DEF UserTypes, LiveKept, IsLive
<1>7. Changed(memberships, memberships', o, u)
  BY <1>0, <1>1, DeprovisionChanges
<1>8. StepOK
  BY <1>2, <1>5, <1>6, <1>7, ProvisionedStep
<1> QED BY <1>5, <1>6, <1>8 DEF StepInv

\* A change of one of the directory's groups, with the sync that follows it.
LEMMA GroupChangeStep ==
    ASSUME IInv, NEW o \in Orgs, NEW g \in Directory,
           NEW x \in [name : Groups, members : SUBSET Users] \cup {NONE},
           NEW affected, NEW order \in UserOrders, Reconfigure,
           groups' = [groups EXCEPT ![o][g] = x],
           memberships' = SyncUsers(scim, groups', o, affected, order),
           UNCHANGED <<orgs, users, roles, invites, acceptedBy, sso, mappings, verified, scim>>
    PROVE  StepInv
<1>0. /\ OtherTypes /\ UserTypes /\ InviteTypes /\ MembershipTypes /\ GroupTypes /\ MappingTypes
      /\ ScimTypes /\ UnmadeRoles /\ SpentWhenAccepted /\ ChangeTypes
  BY TypeParts DEF IInv, OtherTypes
<1>1. GroupTypes' /\ ChangeTypes'
  BY <1>0, ReconfigureTypes DEF GroupTypes
<1>2. OtherTypes' /\ UnmadeRoles' /\ roles' = roles
  BY <1>0, <1>1, OtherTypesStay DEF OtherTypes, UnmadeRoles
<1>3. InviteStep /\ UserTypes' /\ LiveKept
  BY <1>0, InvitesStay DEF UserTypes, LiveKept, IsLive
<1>4. SyncedFrom(memberships, memberships', scim, o)
  BY <1>0, SyncUsersSynced
<1>5. StepOK
  BY <1>2, <1>3, <1>4, SyncedStep
<1> QED BY <1>2, <1>3, <1>5 DEF StepInv

LEMMA ScimSaveGroupStep ==
    ASSUME IInv, NEW o \in Orgs, NEW g \in Directory, NEW n \in Groups, NEW ms \in SUBSET Users,
           NEW order \in UserOrders, ScimSaveGroup(o, g, n, ms, order)
    PROVE  StepInv
<1>1. PICK affected : memberships' = SyncUsers(scim, groups', o, affected, order)
  BY DEF ScimSaveGroup, SaveGroup
<1> DEFINE x == [name |-> n, members |-> ms]
<1>2. x \in [name : Groups, members : SUBSET Users]
  OBVIOUS
<1>3. /\ Reconfigure /\ groups' = [groups EXCEPT ![o][g] = x]
      /\ UNCHANGED <<orgs, users, roles, invites, acceptedBy, sso, mappings, verified, scim>>
  BY DEF ScimSaveGroup, SaveGroup
<1> HIDE DEF x
<1> QED BY <1>1, <1>2, <1>3, GroupChangeStep

LEMMA ScimDeleteGroupStep ==
    ASSUME IInv, NEW o \in Orgs, NEW g \in Directory, NEW order \in UserOrders,
           ScimDeleteGroup(o, g, order)
    PROVE  StepInv
<1> DEFINE affected == groups[o][g].members
<1>1. /\ Reconfigure /\ groups' = [groups EXCEPT ![o][g] = NONE]
      /\ memberships' = SyncUsers(scim, groups', o, affected, order)
      /\ UNCHANGED <<orgs, users, roles, invites, acceptedBy, sso, mappings, verified, scim>>
  BY DEF ScimDeleteGroup
<1> HIDE DEF affected
<1> QED BY <1>1, GroupChangeStep

-----------------------------------------------------------------------------
(* Configuration                                                           *)

\* A step that changes settings, mappings or domains only.
LEMMA ConfigurationStep ==
    ASSUME IInv, Reconfigure, SsoTypes', MappingTypes', VerifiedTypes',
           UNCHANGED <<orgs, users, roles, memberships, invites, acceptedBy, scim, groups>>
    PROVE  StepInv
<1>0. /\ OtherTypes /\ UserTypes /\ InviteTypes /\ MembershipTypes /\ ChangeTypes
      /\ UnmadeRoles /\ SpentWhenAccepted
  BY TypeParts DEF IInv, OtherTypes
<1>1. ChangeTypes'
  BY <1>0, ReconfigureTypes
<1>2. OtherTypes' /\ UnmadeRoles'
  BY <1>0, <1>1, OtherTypesStay DEF OtherTypes, UnmadeRoles
<1>3. InviteStep
  BY <1>0, InvitesStay
<1>4. UserTypes' /\ StepOK
  BY <1>0, NothingGiven
<1> QED BY <1>2, <1>3, <1>4 DEF StepInv

LEMMA SsoUpdateStep ==
    ASSUME IInv, NEW o \in Orgs, NEW jit \in BOOLEAN, NEW role \in Roles \cup {NONE},
           NEW sync \in BOOLEAN, SsoUpdate(o, jit, role, sync)
    PROVE  StepInv
<1>0. SsoTypes /\ MappingTypes /\ VerifiedTypes
  BY TypeParts DEF IInv
<1>1. SsoTypes' /\ MappingTypes' /\ VerifiedTypes'
  BY <1>0, OtherTypesStay DEF SsoUpdate, SsoTypes
<1> QED BY <1>1, ConfigurationStep DEF SsoUpdate

\* One more mapping at the end, while there is room.
LEMMA MappingCreateStep ==
    ASSUME IInv, NEW o \in Orgs, NEW m \in MappingInputs, MappingCreate(o, m)
    PROVE  StepInv
<1>0. SsoTypes /\ MappingTypes /\ VerifiedTypes
  BY TypeParts DEF IInv
<1>1. /\ mappings[o] \in Seq(Mapping) /\ m \in Mapping /\ Len(mappings[o]) < MaxMappings
      /\ MaxMappings \in Nat
  BY <1>0, TenancyAssumption DEF MappingTypes, MappingCreate, MappingRoom
<1> DEFINE new == Append(mappings[o], m)
<1>2. new \in Seq(Mapping) /\ Len(new) <= MaxMappings
  BY <1>1
<1>3. mappings' = [mappings EXCEPT ![o] = new]
  BY DEF MappingCreate
<1> HIDE DEF new
<1>4. MappingTypes'
  BY <1>0, <1>2, <1>3 DEF MappingTypes
<1>5. SsoTypes' /\ VerifiedTypes'
  BY <1>0, OtherTypesStay DEF MappingCreate
<1> QED BY <1>4, <1>5, ConfigurationStep DEF MappingCreate

LEMMA OneRemoved ==
    ASSUME NEW S, NEW s \in Seq(S), NEW i \in DOMAIN s
    PROVE  RemoveAt(s, i) \in Seq(S) /\ Len(RemoveAt(s, i)) <= Len(s)
<1>1. i \in 1..Len(s) /\ Len(s) \in Nat
  BY LenProperties
<1>2. /\ SubSeq(s, 1, i - 1) \in Seq(S) /\ Len(SubSeq(s, 1, i - 1)) = i - 1
  BY <1>1, SubSeqProperties
<1>3. /\ SubSeq(s, i + 1, Len(s)) \in Seq(S) /\ Len(SubSeq(s, i + 1, Len(s))) = Len(s) - i
  BY <1>1, SubSeqProperties
<1> DEFINE a == SubSeq(s, 1, i - 1)
           b == SubSeq(s, i + 1, Len(s))
<1>4. RemoveAt(s, i) = a \o b
  BY DEF RemoveAt
<1> HIDE DEF a, b
<1>5. a \o b \in Seq(S) /\ Len(a \o b) = Len(a) + Len(b)
  BY <1>2, <1>3, ConcatProperties DEF a, b
<1> QED BY <1>1, <1>2, <1>3, <1>4, <1>5 DEF a, b

LEMMA MappingDeleteStep ==
    ASSUME IInv, NEW o \in Orgs, NEW i, MappingDelete(o, i)
    PROVE  StepInv
<1>0. SsoTypes /\ MappingTypes /\ VerifiedTypes
  BY TypeParts DEF IInv
<1>1. mappings[o] \in Seq(Mapping) /\ i \in DOMAIN mappings[o] /\ Len(mappings[o]) <= MaxMappings
  BY <1>0 DEF MappingTypes, MappingDelete
<1> DEFINE new == RemoveAt(mappings[o], i)
<1>2. new \in Seq(Mapping) /\ Len(new) <= Len(mappings[o])
  BY <1>1, OneRemoved
<1>3. mappings' = [mappings EXCEPT ![o] = new]
  BY DEF MappingDelete
<1> HIDE DEF new
<1>4. Len(new) <= MaxMappings
  BY <1>1, <1>2, LenProperties, TenancyAssumption
<1>5. MappingTypes'
  BY <1>0, <1>2, <1>3, <1>4 DEF MappingTypes
<1>6. SsoTypes' /\ VerifiedTypes'
  BY <1>0, OtherTypesStay DEF MappingDelete
<1> QED BY <1>5, <1>6, ConfigurationStep DEF MappingDelete

LEMMA DomainChangeStep ==
    ASSUME IInv, NEW d \in Domains, NEW o \in Orgs \cup {NONE}, DomainChange(d, o)
    PROVE  StepInv
<1>0. SsoTypes /\ MappingTypes /\ VerifiedTypes
  BY TypeParts DEF IInv
<1>1. SsoTypes' /\ MappingTypes' /\ VerifiedTypes'
  BY <1>0, OtherTypesStay DEF DomainChange, VerifiedTypes
<1> QED BY <1>1, ConfigurationStep DEF DomainChange

-----------------------------------------------------------------------------
(* The invariant is inductive                                              *)

LEMMA ByHandStep ==
    ASSUME IInv, ByHand PROVE StepInv
<1>1. ASSUME NEW x \in ManualGrants PROVE x[1] \in Resources /\ x[2] \in Roles \cup {NONE}
  BY TenancyAssumption
<1>2. ASSUME NEW u \in Users, NEW o \in Orgs, NEW r \in Roles, OrgCreate(u, o, r) PROVE StepInv
  BY <1>2, OrgCreateStep
<1>3. ASSUME NEW o \in AllOrgs, NEW r \in EditedRoles, NEW star \in BOOLEAN,
             RoleCreate(o, r, star) \/ RoleUpdate(o, r, star)
      PROVE  StepInv
  BY <1>3, RoleCreateStep, RoleUpdateStep
<1>4. ASSUME NEW u \in Users, NEW x \in ManualGrants, MembershipCreate(u, x[1], x[2]) PROVE StepInv
  BY <1>1, <1>4, MembershipCreateStep
<1>5. ASSUME NEW u \in Users, NEW res \in Resources, MembershipDelete(u, res) \/ MemberRemove(u, res)
      PROVE  StepInv
  BY <1>5, DeleteMembershipStep DEF MembershipDelete, MemberRemove
<1>6. ASSUME NEW u \in Users, UserDelete(u) PROVE StepInv
  BY <1>6, UserDeleteStep
<1>7. ASSUME NEW i \in Invites, NEW e \in Emails, NEW x \in ManualGrants, MemberInvite(i, e, x[1], x[2])
      PROVE  StepInv
  BY <1>1, <1>7, MemberInviteStep
<1>8. ASSUME NEW i \in Invites, InviteExpire(i) PROVE StepInv
  BY <1>8, InviteExpireStep
<1>9. ASSUME NEW i \in Invites, NEW u \in Users, InviteAccept(i, u) PROVE StepInv
  BY <1>9, InviteAcceptStep
<1> QED BY <1>2, <1>3, <1>4, <1>5, <1>6, <1>7, <1>8, <1>9 DEF ByHand

LEMMA AtSignInStep ==
    ASSUME IInv, AtSignIn PROVE StepInv
<1>1. PICK u \in Users :
        \/ \E e \in Emails : SignUpOpen(u, e)
        \/ SignInAdmin(u)
        \/ \E i \in Invites, p \in Providers, d \in Domains : SignUpInvite(u, i, NONE, p, d, <<>>)
        \/ \E o \in Orgs, p \in Providers : \E claim \in IF sso[o].sync THEN Claims ELSE {<<>>} :
              \/ \E d \in Domains : SignInOrg(u, o, p, d, claim)
              \/ \E e \in Emails : SignUpJIT(u, o, p, e, claim)
              \/ \E i \in Invites, d \in Domains : SignUpInvite(u, i, o, p, d, claim)
  BY DEF AtSignIn
<1>2. ASSUME NEW e \in Emails, SignUpOpen(u, e) PROVE StepInv
  BY <1>2, SignUpOpenStep
<1>3. CASE SignInAdmin(u)
  BY <1>3, SignInAdminStep
<1>4. ASSUME NEW i \in Invites, NEW o \in Orgs \cup {NONE}, NEW p, NEW d, NEW claim,
             SignUpInvite(u, i, o, p, d, claim)
      PROVE  StepInv
  BY <1>4, SignUpInviteStep
<1>5. ASSUME NEW o \in Orgs, NEW p, NEW d, NEW claim, SignInOrg(u, o, p, d, claim) PROVE StepInv
  BY <1>5, SignInOrgStep
<1>6. ASSUME NEW o \in Orgs, NEW p, NEW e \in Emails, NEW claim, SignUpJIT(u, o, p, e, claim)
      PROVE  StepInv
  BY <1>6, SignUpJITStep
<1> QED BY <1>1, <1>2, <1>3, <1>4, <1>5, <1>6

LEMMA ByDirectoryStep ==
    ASSUME IInv, ByDirectory PROVE StepInv
<1>1. PICK o \in Orgs :
        \/ \E u \in Users, e \in Emails, active \in BOOLEAN : ScimCreateUser(o, u, e, active)
        \/ \E u \in Users : ScimDeactivate(o, u) \/ ScimReactivate(o, u) \/ ScimDeleteUser(o, u)
        \/ \E g \in Directory, order \in UserOrders :
              \/ \E n \in Groups, ms \in SUBSET Users : ScimSaveGroup(o, g, n, ms, order)
              \/ ScimDeleteGroup(o, g, order)
  BY DEF ByDirectory
<1>2. ASSUME NEW u \in Users, NEW e \in Emails, NEW active \in BOOLEAN, ScimCreateUser(o, u, e, active)
      PROVE  StepInv
  BY <1>2, ScimCreateUserStep
<1>3. ASSUME NEW u \in Users, ScimDeactivate(o, u) \/ ScimReactivate(o, u) \/ ScimDeleteUser(o, u)
      PROVE  StepInv
  BY <1>3, ScimDeactivateStep, ScimReactivateStep, ScimDeleteUserStep
<1>4. ASSUME NEW g \in Directory, NEW order \in UserOrders, NEW n \in Groups, NEW ms \in SUBSET Users,
             ScimSaveGroup(o, g, n, ms, order)
      PROVE  StepInv
  BY <1>4, ScimSaveGroupStep
<1>5. ASSUME NEW g \in Directory, NEW order \in UserOrders, ScimDeleteGroup(o, g, order) PROVE StepInv
  BY <1>5, ScimDeleteGroupStep
<1> QED BY <1>1, <1>2, <1>3, <1>4, <1>5

LEMMA ByConfigurationStep ==
    ASSUME IInv, ByConfiguration PROVE StepInv
<1>1. ASSUME NEW o \in Orgs, NEW jit \in BOOLEAN, NEW sync \in BOOLEAN, NEW r \in Roles \cup {NONE},
             SsoUpdate(o, jit, r, sync)
      PROVE  StepInv
  BY <1>1, SsoUpdateStep
<1>2. ASSUME NEW o \in Orgs, NEW m \in MappingInputs, MappingCreate(o, m) PROVE StepInv
  BY <1>2, MappingCreateStep
<1>3. ASSUME NEW o \in Orgs, NEW i, MappingDelete(o, i) PROVE StepInv
  BY <1>3, MappingDeleteStep
<1>4. ASSUME NEW d \in Domains, NEW o \in Orgs \cup {NONE}, DomainChange(d, o) PROVE StepInv
  BY <1>4, DomainChangeStep
<1> QED BY <1>1, <1>2, <1>3, <1>4 DEF ByConfiguration

LEMMA StutterStep ==
    ASSUME IInv, UNCHANGED vars PROVE StepInv
<1>0. /\ OtherTypes /\ UserTypes /\ InviteTypes /\ MembershipTypes /\ UnmadeRoles
      /\ SpentWhenAccepted
  BY TypeParts DEF IInv, OtherTypes
<1>1. OtherTypes' /\ UnmadeRoles'
  BY <1>0, OtherTypesStay DEF OtherTypes, UnmadeRoles, vars
<1>2. InviteStep
  BY <1>0, InvitesStay DEF vars
<1>3. UserTypes' /\ StepOK
  BY <1>0, NothingGiven DEF vars
<1> QED BY <1>1, <1>2, <1>3 DEF StepInv

LEMMA EveryStep == IInv /\ [Next]_vars => StepInv
  BY ByHandStep, AtSignInStep, ByDirectoryStep, ByConfigurationStep, StutterStep DEF Next

LEMMA InitInv == Init => IInv
<1> SUFFICES ASSUME Init PROVE IInv
  OBVIOUS
<1>1. OrgTypes /\ UserTypes /\ RoleTypes /\ InviteTypes /\ SsoTypes /\ VerifiedTypes /\ ScimTypes
  BY TenancyAssumption
     DEF Init, OrgTypes, UserTypes, RoleTypes, InviteTypes, SsoTypes, VerifiedTypes, ScimTypes, AllOrgs
<1>2. MembershipTypes /\ GroupTypes /\ ChangeTypes
  BY TenancyAssumption DEF Init, MembershipTypes, Tables, GroupTypes, ChangeTypes
<1>3. MappingTypes
  <2>1. <<>> \in Seq(Mapping) /\ Len(<<>>) = 0
    BY EmptySeq
  <2> QED BY <2>1, TenancyAssumption DEF Init, MappingTypes
<1>4. UnmadeRoles
  BY TenancyAssumption DEF Init, UnmadeRoles, SysRoles, AllOrgs
<1>5. SpentWhenAccepted /\ InviteRowsGiven
  BY DEF Init, SpentWhenAccepted, InviteRowsGiven
<1> QED BY <1>1, <1>2, <1>3, <1>4, <1>5, TypeParts DEF IInv

\* A row of source invite is an older one or was given by this very step.
LEMMA GivenKept ==
    ASSUME InviteRowsGiven, InvitesKept, StepOK PROVE InviteRowsGiven'
<1> SUFFICES ASSUME NEW u \in Users, NEW res \in Resources,
                    memberships'[u][res] # NONE, memberships'[u][res].source = "invite"
             PROVE  \E i \in Invites : /\ acceptedBy'[i] = {u} /\ invites'[i].res = res
                                       /\ invites'[i].role = memberships'[u][res].role
  BY DEF InviteRowsGiven
<1>1. RowGiven(u, res)
  BY DEF StepOK
<1>2. CASE memberships'[u][res] = memberships[u][res]
  <2>1. PICK i \in Invites : /\ acceptedBy[i] = {u} /\ invites[i].res = res
                             /\ invites[i].role = memberships[u][res].role
    BY <1>2 DEF InviteRowsGiven
  <2> QED BY <1>2, <2>1 DEF InvitesKept
<1>3. CASE memberships'[u][res] # memberships[u][res]
  BY <1>1, <1>3 DEF RowGiven
<1> QED BY <1>2, <1>3

LEMMA NextInv == IInv /\ [Next]_vars => IInv'
<1> SUFFICES ASSUME IInv, StepInv PROVE IInv'
  BY EveryStep
<1>1. OtherTypes' /\ UserTypes' /\ InviteStep /\ UnmadeRoles' /\ StepOK
  BY DEF StepInv
<1>2. InviteRowsGiven'
  BY <1>1, GivenKept DEF IInv, InviteStep
<1>3. TypeOK'
  <2>1. /\ OrgTypes' /\ UserTypes' /\ RoleTypes' /\ MembershipTypes' /\ InviteTypes' /\ SsoTypes'
        /\ MappingTypes' /\ VerifiedTypes' /\ ScimTypes' /\ GroupTypes' /\ ChangeTypes'
    BY <1>1 DEF OtherTypes, InviteStep, StepOK
  <2> QED BY <2>1
          DEF TypeOK, OrgTypes, UserTypes, RoleTypes, MembershipTypes, InviteTypes, SsoTypes,
              MappingTypes, VerifiedTypes, ScimTypes, GroupTypes, ChangeTypes, Tables
<1> QED BY <1>1, <1>2, <1>3 DEF IInv, InviteStep

\* The inductive invariant holds in every reachable state.
THEOREM Invariance == Spec => []IInv
  BY InitInv, NextInv, PTL DEF Spec

-----------------------------------------------------------------------------
(* The theorems                                                            *)

\* Every table holds rows of its shape, the mappings of an organisation stay
\* within their limit, and the platform organisation exists.
THEOREM TypesKept == Spec => []TypeOK
<1>1. IInv => TypeOK
  BY DEF IInv
<1> QED BY <1>1, Invariance, PTL

\* An invitation lets one person in, whether through invite.accept or a
\* sign-up, and every membership of source invite is one that an invitation,
\* for that resource and role, gave to that very person.
THEOREM OneInvitationOnePerson == Spec => []InvitesSpentOnce
<1>1. IInv => InvitesSpentOnce
  <2> SUFFICES ASSUME IInv PROVE InvitesSpentOnce
    OBVIOUS
  <2>1. ASSUME NEW i \in Invites PROVE Cardinality(acceptedBy[i]) <= 1
    <3>1. CASE acceptedBy[i] = {}
      BY <3>1, FS_EmptySet
    <3>2. CASE \E u \in Users : acceptedBy[i] = {u}
      BY <3>2, FS_Singleton
    <3> QED BY <3>1, <3>2 DEF IInv, SpentWhenAccepted
  <2>2. InviteRowsGiven
    BY DEF IInv
  <2> QED BY <2>1, <2>2 DEF InvitesSpentOnce, InviteRowsGiven
<1> QED BY <1>1, Invariance, PTL

\* Whatever people, sign-ins and the directory do, and in whatever order, an
\* organisation that has an owner keeps one, but for the two unguarded steps.
THEOREM OwnerKept == Spec => LastOwnerKept
<1>1. IInv /\ [Next]_vars =>
        [\A o \in AllOrgs : OwnerLost(o) =>
            \/ \E u \in Users : users[u].state = "live" /\ users'[u].state = "deleted"
            \/ \E r \in Roles : roles[r].org \notin {o, NONE} /\ roles'[r] # roles[r]]_vars
  BY EveryStep DEF StepInv, StepOK, OwnersSafe
<1> QED BY <1>1, Invariance, PTL DEF Spec, LastOwnerKept

\* While the directory has a user inactive, neither a sign-in nor a change of
\* groups gives the user a row in the organisation.
THEOREM InactiveKeptOut == Spec => InactiveStaysOut
<1>1. IInv /\ [Next]_vars =>
        [\A o \in Orgs, u \in Users, res \in Resources :
            /\ scim[o][u] = "inactive" /\ scim'[o][u] = "inactive"
            /\ OrgOf(res) = o
            /\ memberships'[u][res] \notin {memberships[u][res], NONE}
            => memberships'[u][res].source \in {"manual", "invite"}]_vars
  <2> SUFFICES ASSUME StepInv, NEW o \in Orgs, NEW u \in Users, NEW res \in Resources,
                      OrgOf(res) = o, scim[o][u] = "inactive", scim'[o][u] = "inactive",
                      memberships'[u][res] \notin {memberships[u][res], NONE}
               PROVE  memberships'[u][res].source \in {"manual", "invite"}
    BY EveryStep
  <2>1. RowGiven(u, res)
    BY DEF StepInv, StepOK
  <2> QED BY <2>1 DEF RowGiven
<1> QED BY <1>1, Invariance, PTL DEF Spec, InactiveStaysOut

\* JIT and SCIM never give a role that is an owner's at that moment, but for
\* SCIM's fall-back to the seeded Member role.
THEOREM NoOwnerProvisioned == Spec => ProvisionedNotOwner
<1>1. IInv /\ [Next]_vars =>
        [\A o \in Orgs, u \in Users :
            LET row == memberships'[u][o]
            IN  /\ row \notin {memberships[u][o], NONE}
                /\ row.source \in {"jit", "scim"}
                /\ ~(row.source = "scim" /\ row.role = SysMember)
                => ~OwnerEquivalent(roles', row.role)]_vars
  <2> DEFINE row(u, o) == memberships'[u][o]
  <2> SUFFICES ASSUME StepInv, NEW o \in Orgs, NEW u \in Users,
                      row(u, o) \notin {memberships[u][o], NONE},
                      row(u, o).source \in {"jit", "scim"},
                      ~(row(u, o).source = "scim" /\ row(u, o).role = SysMember)
               PROVE  ~OwnerEquivalent(roles', row(u, o).role)
    BY EveryStep
  <2>1. RowGiven(u, o)
    BY OrgOfResource DEF StepInv, StepOK
  <2>2. NoOwnerRow(row(u, o)) /\ roles' = roles
    BY <2>1 DEF RowGiven
  <2> QED BY <2>2 DEF NoOwnerRow, OwnerEquivalent
<1> QED BY <1>1, Invariance, PTL DEF Spec, ProvisionedNotOwner

-----------------------------------------------------------------------------
(* Group changes are followed                                              *)

\* Every user has a place in an order.
LEMMA OrderReachesAll ==
    ASSUME NEW order \in UserOrders, NEW u \in Users
    PROVE  \E n \in 1..Cardinality(Users) : order[n] = u
<1> DEFINE N == Cardinality(Users)
<1>1. N \in Nat /\ IsFiniteSet(Users)
  BY FS_CardinalityType, TenancyAssumption
<1>2. order \in [1..N -> Users] /\ \A i, j \in DOMAIN order : i # j => order[i] # order[j]
  BY DEF UserOrders
<1>3. order \in Injection(1..N, Users)
  BY <1>2 DEF Injection, IsInjective
<1>4. Cardinality(1..N) = Cardinality(Users)
  <2>1. Cardinality(1..N) = N
    <3> HIDE DEF N
    <3> QED BY <1>1, FS_Interval
  <2> QED BY <2>1
<1>5. order \in Surjection(1..N, Users)
  BY <1>1, <1>3, <1>4, FS_Injection
<1> QED BY <1>5 DEF Surjection

\* What one user's sync leaves: rows that follow the groups, or the row of the
\* organisation's only owner as it was.
LEMMA SyncUserFollows ==
    ASSUME MappingTypes, NEW ms \in Tables, NEW sc, NEW gs, NEW o \in Orgs, NEW u \in Users,
           sc[o][u] = "active", NEW res \in Resources, OrgOf(res) = o
    PROVE  \/ FollowsGroups(SyncUser(ms, sc, gs, o, u), gs, o, u, res)
           \/ /\ res = o /\ OrgOwners(users, ms, roles, o) = {u}
              /\ SyncUser(ms, sc, gs, o, u)[u][o] = ms[u][o]
<1> DEFINE names == GroupNames(gs, o, u)
           role == Desired(o, NONE, names, res)
           cur == ms[u][res]
           row == ReconcileRow(ms, o, u, NONE, names, res)
           new == SyncUser(ms, sc, gs, o, u)
<1>1. new[u][res] = row
  BY ReconciledTable DEF SyncUser
<1>2. role \in Roles \cup {NONE} /\ cur \in Row \cup {NONE}
  BY DesiredRole DEF Tables
<1>3. row = IF cur = NONE
            THEN IF role = NONE THEN NONE ELSE [role |-> role, source |-> "idp"]
            ELSE IF cur.source # "idp" \/ cur.role = role \/ (res = o /\ KeepLastOwner(ms, o, u, role))
            THEN cur
            ELSE IF role = NONE THEN NONE ELSE [cur EXCEPT !.role = role]
  BY DEF ReconcileRow
<1>4. FollowsGroups(new, gs, o, u, res) <=>
        /\ role # NONE => row # NONE
        /\ row # NONE /\ row.source = "idp" => row.role = role
  BY <1>1 DEF FollowsGroups
<1>5. KeepLastOwner(ms, o, u, role) => OrgOwners(users, ms, roles, o) = {u}
  BY DEF KeepLastOwner, IsLastOwner
<1> HIDE DEF names, role, cur, row, new
<1>6. CASE cur # NONE /\ cur.source = "idp" /\ cur.role # role /\ res = o /\ KeepLastOwner(ms, o, u, role)
  BY <1>1, <1>3, <1>5, <1>6 DEF cur, new
<1>7. CASE cur = NONE
  <2>1. role # NONE => [role |-> role, source |-> "idp"] \in Row /\ NONE \notin Row
    BY <1>2, TenancyAssumption DEF Row, Sources
  <2>2. CASE role = NONE
    BY <1>3, <1>4, <1>7, <2>2 DEF new
  <2>3. CASE role # NONE
    <3>1. row = [role |-> role, source |-> "idp"] /\ row # NONE /\ row.role = role
      BY <1>3, <1>7, <2>1, <2>3
    <3> QED BY <1>4, <3>1 DEF new
  <2> QED BY <2>2, <2>3
<1>8. CASE cur # NONE /\ (cur.source # "idp" \/ cur.role = role)
  BY <1>3, <1>4, <1>8 DEF new
<1>9. CASE /\ cur # NONE /\ cur.source = "idp" /\ cur.role # role
           /\ ~(res = o /\ KeepLastOwner(ms, o, u, role))
  <2>1. CASE role = NONE
    BY <1>3, <1>4, <1>9, <2>1 DEF new
  <2>2. CASE role # NONE
    <3>1. row = [cur EXCEPT !.role = role] /\ cur \in Row
      BY <1>2, <1>3, <1>9, <2>2
    <3>2. [cur EXCEPT !.role = role] \in Row /\ [cur EXCEPT !.role = role].role = role
      BY <1>2, <2>2, <3>1 DEF Row
    <3>3. row # NONE /\ row.role = role
      BY <3>1, <3>2, TenancyAssumption
    <3> QED BY <1>4, <3>3 DEF new
  <2> QED BY <2>1, <2>2
<1> QED BY <1>6, <1>7, <1>8, <1>9 DEF new

\* After syncUsers the affected active users follow their groups, but for one
\* who is the organisation's owner.
Due(sc, o, affected) == {u \in Users : u \in affected /\ sc[o][u] = "active"}

FollowedBy(new, gs, o, due) ==
    /\ \A u \in due, res \in Resources : OrgOf(res) = o =>
          \/ FollowsGroups(new, gs, o, u, res)
          \/ res = o /\ u \in OrgOwners(users, new, roles, o)
    /\ \A u, v \in due :
          \/ FollowsGroups(new, gs, o, u, o)
          \/ FollowsGroups(new, gs, o, v, o)
          \/ u = v

LEMMA SyncUsersFollow ==
    ASSUME MappingTypes, MembershipTypes, NEW sc, NEW gs, NEW o \in Orgs, NEW affected,
           NEW order \in UserOrders
    PROVE  FollowedBy(SyncUsers(sc, gs, o, affected, order), gs, o, Due(sc, o, affected))
<1> DEFINE N == Cardinality(Users)
           new == SyncUsers(sc, gs, o, affected, order)
           due == Due(sc, o, affected)
<1>1. N \in Nat
  BY FS_CardinalityType, TenancyAssumption
<1>2. \A u \in Users : \E n \in 1..N : order[n] = u
  BY OrderReachesAll
<1>3. order \in [1..N -> Users] /\ \A i, j \in 1..N : i # j => order[i] # order[j]
  BY DEF UserOrders
<1>4. PICK after :
         /\ after[0] = memberships
         /\ \A n \in 1..N :
               after[n] = IF order[n] \in affected THEN SyncUser(after[n - 1], sc, gs, o, order[n])
                          ELSE after[n - 1]
         /\ new = after[N]
  BY <1>1, SyncUsersPrefix
<1> HIDE DEF N, new
<1>5. \A n \in 0..N : after[n] \in Tables
  <2> DEFINE S == {n \in Nat : n \in 0..N => after[n] \in Tables}
  <2>1. 0 \in S
    BY <1>4 DEF MembershipTypes
  <2>2. ASSUME NEW n \in Nat, n \in S PROVE n + 1 \in S
    <3> SUFFICES ASSUME n + 1 \in 0..N PROVE after[n + 1] \in Tables
      OBVIOUS
    <3>1. n + 1 \in 1..N /\ n \in 0..N /\ (n + 1) - 1 = n
      BY <1>1
    <3>2. after[n] \in Tables /\ order[n + 1] \in Users
      BY <1>3, <2>2, <3>1
    <3>3. after[n + 1] = IF order[n + 1] \in affected THEN SyncUser(after[n], sc, gs, o, order[n + 1])
                         ELSE after[n]
      BY <1>4, <3>1
    <3>4. SyncUser(after[n], sc, gs, o, order[n + 1]) \in Tables
      BY <3>2, SyncUserChanges DEF Changed
    <3> QED BY <3>2, <3>3, <3>4
  <2>3. Nat \subseteq S
    <3> HIDE DEF S
    <3> QED BY <2>1, <2>2, SetInduction
  <2> QED BY <2>3
\* A table differs from the one before only in the rows of its user.
<1>6. \A n \in 1..N, v \in Users : v # order[n] => after[n][v] = after[n - 1][v]
  <2> SUFFICES ASSUME NEW n \in 1..N, NEW v \in Users, v # order[n]
               PROVE  after[n][v] = after[n - 1][v]
    OBVIOUS
  <2> DEFINE u == order[n]
             ms == after[n - 1]
  <2>1. n - 1 \in 0..N
    BY <1>1
  <2>2. ms \in Tables /\ u \in Users
    BY <1>3, <1>5, <2>1
  <2>3. after[n] = IF u \in affected THEN SyncUser(ms, sc, gs, o, u) ELSE ms
    BY <1>4
  <2> HIDE DEF u, ms
  <2>4. Changed(ms, SyncUser(ms, sc, gs, o, u), o, u)
    BY <2>2, SyncUserChanges
  <2>5. v # u => SyncUser(ms, sc, gs, o, u)[v] = ms[v]
    BY <2>4 DEF Changed
  <2> QED BY <2>3, <2>5 DEF u, ms
\* So a user's rows stay as the user's own place in the order left them.
<1>7. ASSUME NEW n \in 1..N PROVE \A m \in n..N : after[m][order[n]] = after[n][order[n]]
  <2> DEFINE u == order[n]
             S == {k \in Nat : n + k \in n..N => after[n + k][u] = after[n][u]}
  <2>1. u \in Users
    BY <1>3
  <2>2. 0 \in S
    OBVIOUS
  <2>3. ASSUME NEW k \in Nat, k \in S PROVE k + 1 \in S
    <3> SUFFICES ASSUME n + (k + 1) \in n..N PROVE after[n + (k + 1)][u] = after[n][u]
      OBVIOUS
    <3>1. n + k \in n..N /\ (n + (k + 1)) - 1 = n + k /\ n + (k + 1) \in 1..N /\ n + (k + 1) # n
      BY <1>1
    <3>2. u # order[n + (k + 1)]
      BY <1>3, <3>1
    <3>3. after[n + (k + 1)][u] = after[n + k][u]
      BY <1>6, <2>1, <3>1, <3>2
    <3> QED BY <2>3, <3>1, <3>3
  <2>4. Nat \subseteq S
    <3> HIDE DEF S, u
    <3> QED BY <2>2, <2>3, SetInduction
  <2> HIDE DEF u
  <2>5. ASSUME NEW m \in n..N PROVE after[m][u] = after[n][u]
    <3>1. m - n \in Nat /\ n + (m - n) = m
      BY <1>1
    <3> QED BY <2>4, <3>1
  <2> QED BY <2>5 DEF u
\* The user who lags was the only owner at that place and stays an owner.
<1>8. ASSUME NEW n \in 1..N, order[n] \in due, NEW res \in Resources, OrgOf(res) = o
      PROVE  \/ FollowsGroups(new, gs, o, order[n], res)
             \/ /\ res = o /\ OrgOwners(users, after[n - 1], roles, o) = {order[n]}
                /\ \A m \in (n - 1)..N : order[n] \in OrgOwners(users, after[m], roles, o)
  <2> DEFINE u == order[n]
             ms == after[n - 1]
  <2>1. u \in Users /\ u \in affected /\ sc[o][u] = "active" /\ n - 1 \in 0..N /\ N \in n..N
    BY <1>1, <1>8 DEF Due
  <2>2. ms \in Tables /\ after[n] = SyncUser(ms, sc, gs, o, u) /\ OrgOf(res) = o
    BY <1>4, <1>5, <1>8, <2>1
  <2>3. \A m \in n..N : after[m][u] = after[n][u]
    BY <1>7
  <2> HIDE DEF u, ms
  <2>4. new[u] = after[n][u]
    BY <1>4, <2>1, <2>3
  <2>5. CASE FollowsGroups(after[n], gs, o, u, res)
    BY <2>4, <2>5 DEF FollowsGroups, u
  <2>6. CASE ~FollowsGroups(after[n], gs, o, u, res)
    <3>1. /\ res = o /\ OrgOwners(users, ms, roles, o) = {u}
          /\ after[n][u][o] = ms[u][o]
      <4>1. \/ FollowsGroups(SyncUser(ms, sc, gs, o, u), gs, o, u, res)
            \/ /\ res = o /\ OrgOwners(users, ms, roles, o) = {u}
               /\ SyncUser(ms, sc, gs, o, u)[u][o] = ms[u][o]
        BY <2>1, <2>2, SyncUserFollows
      <4> QED BY <2>2, <2>6, <4>1
    <3>2. ASSUME NEW m \in (n - 1)..N PROVE after[m][u][o] = ms[u][o]
      <4>1. m = n - 1 \/ m \in n..N
        BY <1>1
      <4> QED BY <2>3, <3>1, <4>1 DEF ms
    <3>3. \A m \in (n - 1)..N : u \in OrgOwners(users, after[m], roles, o)
      BY <3>1, <3>2 DEF OrgOwners
    <3> QED BY <3>1, <3>3 DEF u, ms
  <2> QED BY <2>5, <2>6
<1>9. due \subseteq Users
  BY DEF Due
<1> HIDE DEF due
<1>10. ASSUME NEW u \in due, NEW res \in Resources, OrgOf(res) = o
      PROVE  \/ FollowsGroups(new, gs, o, u, res)
             \/ res = o /\ u \in OrgOwners(users, new, roles, o)
  <2>1. PICK n \in 1..N : order[n] = u
    BY <1>2, <1>9
  <2>2. N \in (n - 1)..N
    BY <1>1
  <2> QED BY <1>4, <1>8, <1>10, <2>1, <2>2
\* A second one who lags would be the only owner while the first is one.
<1>11. ASSUME NEW i \in 1..N, NEW j \in 1..N, i < j, order[i] \in due, order[j] \in due
       PROVE  FollowsGroups(new, gs, o, order[i], o) \/ FollowsGroups(new, gs, o, order[j], o)
  <2> SUFFICES ASSUME ~FollowsGroups(new, gs, o, order[i], o), ~FollowsGroups(new, gs, o, order[j], o)
               PROVE  FALSE
    OBVIOUS
  <2>1. OrgOf(o) = o /\ o \in Resources
    BY OrgOfResource
  <2>2. j - 1 \in (i - 1)..N
    BY <1>1, <1>11
  <2>3. order[i] \in OrgOwners(users, after[j - 1], roles, o)
    BY <1>8, <1>11, <2>1, <2>2
  <2>4. OrgOwners(users, after[j - 1], roles, o) = {order[j]}
    BY <1>8, <1>11, <2>1
  <2>5. order[i] # order[j]
    BY <1>3, <1>11
  <2> QED BY <2>3, <2>4, <2>5
<1>12. ASSUME NEW u \in due, NEW v \in due, u # v
       PROVE  FollowsGroups(new, gs, o, u, o) \/ FollowsGroups(new, gs, o, v, o)
  <2>1. PICK i \in 1..N : order[i] = u
    BY <1>2, <1>9
  <2>2. PICK j \in 1..N : order[j] = v
    BY <1>2, <1>9
  <2>3. i < j \/ j < i
    BY <1>12, <2>1, <2>2
  <2> QED BY <1>11, <2>1, <2>2, <2>3
<1> QED BY <1>10, <1>12 DEF new, due, FollowedBy

\* The users whose groups in o a step changes.
Moved(o) ==
    {u \in Users : /\ scim[o][u] = "active" /\ scim'[o][u] = "active"
                   /\ GroupNames(groups, o, u) # GroupNames(groups', o, u)}

Lag(o) == {u \in Moved(o) : ~FollowsGroups(memberships', groups', o, u, o)}

FollowedIn(o) ==
    /\ \A u \in Moved(o), res \in Teams :
          TeamOrg[res] = o => FollowsGroups(memberships', groups', o, u, res)
    /\ Cardinality(Lag(o)) <= 1
    /\ Lag(o) \subseteq OrgOwners(users', memberships', roles', o)

LEMMA NobodyMoved ==
    ASSUME NEW o \in Orgs, Moved(o) = {} PROVE FollowedIn(o)
<1>1. Lag(o) = {}
  BY DEF Lag
<1> QED BY <1>1, FS_EmptySet DEF FollowedIn

\* The steps that leave the groups alone.
LEMMA GroupsStay ==
    /\ ByHand \/ AtSignIn \/ ByConfiguration \/ UNCHANGED vars => UNCHANGED groups
    /\ \A o \in Orgs, u \in Users, e \in Emails, active \in BOOLEAN :
          ScimCreateUser(o, u, e, active) => UNCHANGED groups
    /\ \A o \in Orgs, u \in Users : ScimDeactivate(o, u) \/ ScimReactivate(o, u) => UNCHANGED groups
<1>1. ByHand => UNCHANGED groups
  BY DEF ByHand, OrgCreate, RoleCreate, RoleUpdate, MembershipCreate, MembershipDelete, MemberRemove,
         DeleteMembership, UserDelete, MemberInvite, InviteExpire, InviteAccept, MembershipOnly
<1>2. AtSignIn => UNCHANGED groups
  <2>1. /\ \A u, e : SignUpOpen(u, e) => UNCHANGED groups
        /\ \A u : SignInAdmin(u) => UNCHANGED groups
        /\ \A u, o, prov, d, claim : SignInOrg(u, o, prov, d, claim) => UNCHANGED groups
        /\ \A u, o, prov, e, claim : SignUpJIT(u, o, prov, e, claim) => UNCHANGED groups
        /\ \A u, i, o, prov, d, claim : SignUpInvite(u, i, o, prov, d, claim) => UNCHANGED groups
    BY DEF SignUpOpen, SignInAdmin, SignUpInvite, SignInOrg, SignUpJIT, MembershipOnly
  <2> QED BY <2>1 DEF AtSignIn
<1>3. ByConfiguration => UNCHANGED groups
  BY DEF ByConfiguration, SsoUpdate, MappingCreate, MappingDelete, DomainChange
<1> QED BY <1>1, <1>2, <1>3
        DEF vars, ScimCreateUser, ScimDeactivate, ScimReactivate, MembershipOnly

LEMMA SameGroups ==
    ASSUME NEW o \in Orgs, groups'[o] = groups[o] PROVE FollowedIn(o)
<1>1. \A u : GroupNames(groups', o, u) = GroupNames(groups, o, u)
  BY DEF GroupNames
<1> QED BY <1>1, NobodyMoved DEF Moved

\* deleteUser takes the user out of the groups and nobody else.
LEMMA DeletedUserFollowed ==
    ASSUME IInv, NEW o \in Orgs, NEW u \in Users, ScimDeleteUser(o, u), NEW p \in Orgs
    PROVE  FollowedIn(p)
<1>0. GroupTypes /\ ScimTypes
  BY TypeParts DEF IInv
<1> DEFINE left == [g \in Directory |->
                      IF groups[o][g] = NONE THEN NONE
                      ELSE [groups[o][g] EXCEPT !.members = @ \ {u}]]
<1>1. groups' = [groups EXCEPT ![o] = left] /\ scim' = [scim EXCEPT ![o][u] = NONE]
  BY DEF ScimDeleteUser
<1>2. ASSUME NEW g \in Directory, groups[o][g] # NONE
      PROVE  /\ left[g] # NONE /\ left[g].name = groups[o][g].name
             /\ left[g].members = groups[o][g].members \ {u}
  <2>1. groups[o][g] \in [name : Groups, members : SUBSET Users]
    BY <1>0, <1>2 DEF GroupTypes
  <2>2. left[g] = [groups[o][g] EXCEPT !.members = @ \ {u}]
    BY <1>2
  <2>3. left[g] \in [name : Groups, members : SUBSET Users]
    BY <2>1, <2>2
  <2> QED BY <2>1, <2>2, <2>3, TenancyAssumption
<1>3. \A g \in Directory : groups[o][g] = NONE => left[g] = NONE
  OBVIOUS
<1> HIDE DEF left
<1>4. CASE p # o
  BY <1>0, <1>1, <1>4, SameGroups DEF GroupTypes
<1>5. CASE p = o
  <2>1. groups'[o] = left /\ scim'[o][u] = NONE
    BY <1>0, <1>1, ScimTable DEF GroupTypes
  <2>2. ASSUME NEW v \in Users, v # u PROVE GroupNames(groups', o, v) = GroupNames(groups, o, v)
    <3>1. \A g \in Directory : groups'[o][g] # NONE /\ v \in groups'[o][g].members
                               <=> groups[o][g] # NONE /\ v \in groups[o][g].members
      BY <1>2, <1>3, <2>1, <2>2
    <3>2. \A g \in Directory : groups[o][g] # NONE => groups'[o][g].name = groups[o][g].name
      BY <1>2, <2>1
    <3> QED BY <3>1, <3>2 DEF GroupNames
  <2>3. Moved(o) = {}
    BY <2>1, <2>2, TenancyAssumption DEF Moved
  <2> QED BY <1>5, <2>3, NobodyMoved
<1> QED BY <1>4, <1>5

\* A group change whose affected users include everyone it moves.
LEMMA ChangedGroupFollowed ==
    ASSUME IInv, NEW o \in Orgs, NEW affected, NEW order \in UserOrders,
           memberships' = SyncUsers(scim, groups', o, affected, order),
           \A u \in Users : u \notin affected => GroupNames(groups', o, u) = GroupNames(groups, o, u),
           \A p \in Orgs \ {o} : groups'[p] = groups[p],
           UNCHANGED <<users, roles, scim>>, NEW q \in Orgs
    PROVE  FollowedIn(q)
<1>0. MappingTypes /\ MembershipTypes
  BY TypeParts DEF IInv
<1>1. CASE q # o
  BY <1>1, SameGroups
<1>2. CASE q = o
  <2> DEFINE new == SyncUsers(scim, groups', o, affected, order)
             due == Due(scim, o, affected)
  <2>1. FollowedBy(new, groups', o, due)
    BY <1>0, SyncUsersFollow
  <2>2. memberships' = new
    OBVIOUS
  <2>3. Moved(o) \subseteq due
    BY DEF Moved, Due
  <2>4. Lag(o) = {u \in Moved(o) : ~FollowsGroups(new, groups', o, u, o)}
    BY DEF Lag
  <2>5. ASSUME NEW u \in Moved(o), NEW res \in Teams, TeamOrg[res] = o
        PROVE  FollowsGroups(memberships', groups', o, u, res)
    <3>1. res \in Resources /\ OrgOf(res) = o /\ res # o
      BY <2>5, TenancyAssumption DEF Resources, OrgOf, AllOrgs
    <3> QED BY <2>1, <2>2, <2>3, <3>1 DEF FollowedBy
  <2> HIDE DEF new, due
  <2>6. \A u, v \in Lag(o) : u = v
    BY <2>1, <2>3, <2>4 DEF FollowedBy
  <2>7. Cardinality(Lag(o)) <= 1
    <3>1. CASE Lag(o) = {}
      BY <3>1, FS_EmptySet
    <3>2. CASE Lag(o) # {}
      <4>1. PICK u : u \in Lag(o)
        BY <3>2
      <4>2. Lag(o) = {u}
        BY <2>6, <4>1
      <4>3. Cardinality({u}) = 1
        BY FS_Singleton
      <4> QED BY <4>2, <4>3
    <3> QED BY <3>1, <3>2
  <2>8. Lag(o) \subseteq OrgOwners(users', memberships', roles', o)
    <3>1. Lag(o) \subseteq OrgOwners(users, new, roles, o)
      BY <2>1, <2>3, <2>4, OrgOfResource DEF FollowedBy
    <3> QED BY <2>2, <3>1 DEF OrgOwners
  <2> QED BY <1>2, <2>5, <2>7, <2>8 DEF FollowedIn
<1> QED BY <1>1, <1>2

\* saveGroup: a user who is not affected keeps the names of all groups.
LEMMA SavedGroupFollowed ==
    ASSUME IInv, NEW o \in Orgs, NEW g \in Directory, NEW n \in Groups, NEW ms \in SUBSET Users,
           NEW order \in UserOrders, ScimSaveGroup(o, g, n, ms, order), NEW q \in Orgs
    PROVE  FollowedIn(q)
<1>0. GroupTypes
  BY TypeParts DEF IInv
<1> DEFINE old == groups[o][g]
           before == IF old = NONE THEN {} ELSE old.members
           renamed == old # NONE /\ old.name # n
           affected == (ms \ before) \cup (before \ ms) \cup (IF renamed THEN ms \cap before ELSE {})
           x == [name |-> n, members |-> ms]
<1>1. /\ groups' = [groups EXCEPT ![o][g] = x]
      /\ memberships' = SyncUsers(scim, groups', o, affected, order)
      /\ UNCHANGED <<users, roles, scim>>
  BY DEF ScimSaveGroup, SaveGroup
<1>2. x \in [name : Groups, members : SUBSET Users] /\ x.name = n /\ x.members = ms
  OBVIOUS
<1>3. x # NONE
  BY <1>2, TenancyAssumption
<1>4. \A u : u \notin affected => /\ u \in ms <=> old # NONE /\ u \in old.members
                                  /\ u \in ms => old.name = n
  OBVIOUS
<1> HIDE DEF x, affected
<1>5. /\ groups'[o][g] = x /\ \A d \in Directory \ {g} : groups'[o][d] = groups[o][d]
      /\ \A p \in Orgs \ {o} : groups'[p] = groups[p]
  BY <1>0, <1>1 DEF GroupTypes
<1>6. ASSUME NEW u \in Users, u \notin affected
      PROVE  GroupNames(groups', o, u) = GroupNames(groups, o, u)
  <2>1. \A d \in Directory : groups'[o][d] # NONE /\ u \in groups'[o][d].members
                             <=> groups[o][d] # NONE /\ u \in groups[o][d].members
    BY <1>2, <1>3, <1>4, <1>5, <1>6
  <2>2. \A d \in Directory : groups[o][d] # NONE /\ u \in groups[o][d].members
                             => groups'[o][d].name = groups[o][d].name
    BY <1>2, <1>4, <1>5, <1>6
  <2> QED BY <2>1, <2>2 DEF GroupNames
<1> QED BY <1>1, <1>5, <1>6, ChangedGroupFollowed

LEMMA DeletedGroupFollowed ==
    ASSUME IInv, NEW o \in Orgs, NEW g \in Directory, NEW order \in UserOrders,
           ScimDeleteGroup(o, g, order), NEW q \in Orgs
    PROVE  FollowedIn(q)
<1>0. GroupTypes
  BY TypeParts DEF IInv
<1> DEFINE affected == groups[o][g].members
<1>1. /\ groups' = [groups EXCEPT ![o][g] = NONE] /\ groups[o][g] # NONE
      /\ memberships' = SyncUsers(scim, groups', o, affected, order)
      /\ UNCHANGED <<users, roles, scim>>
  BY DEF ScimDeleteGroup
<1>2. /\ groups'[o][g] = NONE /\ \A d \in Directory \ {g} : groups'[o][d] = groups[o][d]
      /\ \A p \in Orgs \ {o} : groups'[p] = groups[p]
  BY <1>0, <1>1 DEF GroupTypes
<1>3. ASSUME NEW u \in Users, u \notin affected
      PROVE  GroupNames(groups', o, u) = GroupNames(groups, o, u)
  <2>1. \A d \in Directory : groups'[o][d] # NONE /\ u \in groups'[o][d].members
                             <=> groups[o][d] # NONE /\ u \in groups[o][d].members
    BY <1>2, <1>3
  <2>2. \A d \in Directory : groups'[o][d] # NONE => groups'[o][d].name = groups[o][d].name
    BY <1>2
  <2> QED BY <2>1, <2>2 DEF GroupNames
<1> HIDE DEF affected
<1> QED BY <1>1, <1>2, <1>3, ChangedGroupFollowed

\* After every change of an organisation's SCIM groups the memberships of each
\* active user whose groups changed follow the mappings; at most one user
\* keeps more than that, and that one is an owner, in whatever order the users
\* are synced.
THEOREM GroupsFollowed == Spec => GroupChangesFollowed
<1>1. IInv /\ [Next]_vars =>
        [\A o \in Orgs :
            LET moved == {u \in Users : /\ groups[o] # groups'[o]
                                        /\ scim[o][u] = "active" /\ scim'[o][u] = "active"
                                        /\ GroupNames(groups, o, u) # GroupNames(groups', o, u)}
                lag   == {u \in moved : ~FollowsGroups(memberships', groups', o, u, o)}
            IN  /\ \A u \in moved, res \in Teams :
                      TeamOrg[res] = o => FollowsGroups(memberships', groups', o, u, res)
                /\ Cardinality(lag) <= 1
                /\ lag \subseteq OrgOwners(users', memberships', roles', o)]_vars
  <2>1. ASSUME IInv, [Next]_vars, NEW o \in Orgs PROVE FollowedIn(o)
    <3>1. CASE UNCHANGED groups
      BY <3>1, SameGroups
    <3>2. CASE ByDirectory
      <4>1. PICK p \in Orgs :
              \/ \E u \in Users, e \in Emails, active \in BOOLEAN : ScimCreateUser(p, u, e, active)
              \/ \E u \in Users : ScimDeactivate(p, u) \/ ScimReactivate(p, u) \/ ScimDeleteUser(p, u)
              \/ \E g \in Directory, order \in UserOrders :
                    \/ \E n \in Groups, ms \in SUBSET Users : ScimSaveGroup(p, g, n, ms, order)
                    \/ ScimDeleteGroup(p, g, order)
        BY <3>2 DEF ByDirectory
      <4>2. CASE \/ \E u \in Users, e \in Emails, active \in BOOLEAN : ScimCreateUser(p, u, e, active)
                 \/ \E u \in Users : ScimDeactivate(p, u) \/ ScimReactivate(p, u)
        BY <3>1, <4>2, GroupsStay
      <4>3. ASSUME NEW u \in Users, ScimDeleteUser(p, u) PROVE FollowedIn(o)
        BY <2>1, <4>3, DeletedUserFollowed
      <4>4. ASSUME NEW g \in Directory, NEW order \in UserOrders, NEW n \in Groups,
                   NEW ms \in SUBSET Users, ScimSaveGroup(p, g, n, ms, order)
            PROVE  FollowedIn(o)
        BY <2>1, <4>4, SavedGroupFollowed
      <4>5. ASSUME NEW g \in Directory, NEW order \in UserOrders, ScimDeleteGroup(p, g, order)
            PROVE  FollowedIn(o)
        BY <2>1, <4>5, DeletedGroupFollowed
      <4> QED BY <4>1, <4>2, <4>3, <4>4, <4>5
    <3> QED BY <2>1, <3>1, <3>2, GroupsStay DEF Next
  <2>2. \A o \in Orgs : Moved(o) = {u \in Users :
                            /\ groups[o] # groups'[o]
                            /\ scim[o][u] = "active" /\ scim'[o][u] = "active"
                            /\ GroupNames(groups, o, u) # GroupNames(groups', o, u)}
    BY DEF Moved, GroupNames
  <2> QED BY <2>1, <2>2 DEF FollowedIn, Lag
<1> QED BY <1>1, Invariance, PTL DEF Spec, GroupChangesFollowed
=============================================================================

\* One organisation beside the platform's, two people, a team, two groups, an
\* invitation; at most MaxChanges changes of configuration.
CONSTANTS
    NONE = NONE
    Platform = Platform
    o1 = o1
    t1 = t1
    u1 = u1
    u2 = u2
    e1 = e1
    e2 = e2
    d1 = d1
    owner = owner
    member = member
    r1 = r1
    g1 = g1
    g2 = g2
    s1 = s1
    p1 = p1
    i1 = i1
    Orgs = {o1}
    Teams = {t1}
    TeamOrg <- MCTeamOrg
    Users = {u1, u2}
    Emails = {e1, e2}
    DomainOf <- MCDomainOf
    AdminEmails = {e1, e2}
    Roles = {owner, member, r1}
    SysOwner = owner
    SysMember = member
    Groups = {g1, g2}
    Directory = {s1}
    Providers = {p1}
    Invites = {i1}
    EditedRoles = {member, r1}
    ManualGrants <- MCManualGrants
    MappingInputs <- MCMappingInputs
    MaxMappings = 1
    MaxChanges = 3
\* The bounded instance runs out of people and changes, so it may stop.
CHECK_DEADLOCK FALSE
SPECIFICATION Spec
SYMMETRY Symmetry
INVARIANTS
    TypeOK
    InvitesSpentOnce
PROPERTIES
    LastOwnerKept
    InactiveStaysOut
    ProvisionedNotOwner
    GroupChangesFollowed

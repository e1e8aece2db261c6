\* Two people, an account at a platform provider and one at an organisation's,
\* a passkey, two organisations that claim one domain.
CONSTANTS
    NONE = NONE
    u1 = u1
    u2 = u2
    e1 = e1
    e2 = e2
    a1 = a1
    a2 = a2
    p1 = p1
    p2 = p2
    o1 = o1
    o2 = o2
    c1 = c1
    Users = {u1, u2}
    Emails = {e1, e2}
    OnDomain = {e1, e2}
    Accts = {a1, a2}
    ProviderOf <- MCProviderOf
    OwnerOf <- MCOwnerOf
    Orgs = {o1, o2}
    Creds = {c1}
    Configs <- MCConfigs
    MaxStarts = 2
    MaxSessions = 2
    MaxRows = 2
\* The bounded instance runs out of sessions, so it may stop.
CHECK_DEADLOCK FALSE
SPECIFICATION Spec
SYMMETRY Symmetry
INVARIANTS
    TypeOK
    ClaimedOnce
    SessionsFollowIdentities
PROPERTIES
    ClaimByTokenInForce
    ProvedControl
    MethodKept

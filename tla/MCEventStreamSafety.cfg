\* One tab, an organisation, and buffers that fill up.
CONSTANTS
    c1 = c1
    u1 = u1
    u2 = u2
    o1 = o1
    Platform = Platform
    NoMessage = NoMessage
    Clients = {c1}
    Users = {u1, u2}
    UserOf <- MCUserOf
    Orgs = {o1}
    BusBuffer = 1
    ClientBuffer = 1
    RingSize = 2
    MaxEvents = 4
    MaxRestarts = 1
SPECIFICATION Spec
INVARIANTS
    TypeOK
    AudienceOnly
    NothingSkipped

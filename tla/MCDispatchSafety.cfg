\* Three calls with one key, an agent's call and a dry run; errors and a crash.
\* Every call ends, so the system may stop.
CONSTANTS
    q1 = q1
    q2 = q2
    q3 = q3
    a1 = a1
    d1 = d1
    k1 = k1
    NoKey = NoKey
    NoRequest = NoRequest
    Requests = {q1, q2, q3, a1, d1}
    Keys = {k1}
    Key <- MCKey
    Dry = {d1}
    Secret <- MCSecret
    MustAudit <- MCMustAudit
    MaxFaults = 1
    MaxCrashes = 1
SPECIFICATION Spec
CHECK_DEADLOCK FALSE
SYMMETRY Symmetry
INVARIANTS
    TypeOK
    AnswerMatchesEffects
    RecordsFollowCommit
    AnswersAgree
    NoRepeatAfterAnswer
PROPERTY
    ImplementsService

\* A call with a key, and its retry.
CONSTANTS
    q1 = q1
    q2 = q2
    q3 = q3
    a1 = a1
    d1 = d1
    k1 = k1
    NoKey = NoKey
    NoRequest = NoRequest
    Requests = {q1, q2, d1}
    Keys = {k1}
    Key <- MCKey
    Dry = {d1}
    Secret <- MCSecret
    MustAudit <- MCMustAudit
    MaxFaults = 0
    MaxCrashes = 0
SPECIFICATION Spec
CHECK_DEADLOCK FALSE
INVARIANT
    RetriesDoNotDoubleApply

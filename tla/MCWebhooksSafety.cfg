\* Two webhooks and two events, edits between any two steps, one database
\* error and one crash.
CONSTANTS
    h1 = h1
    h2 = h2
    e1 = e1
    e2 = e2
    w1 = w1
    w2 = w2
    None = None
    Hooks = {h1, h2}
    Events = {e1, e2}
    Names = {"task.create", "task.move"}
    EventName <- MCEventName
    Filters <- MCFilters
    Workers = {w1, w2}
    BufferSize = 1
    MaxAttempts = 2
    MaxEdits = 3
    MaxFaults = 1
    MaxCrashes = 1
SPECIFICATION Spec
SYMMETRY Symmetry
CHECK_DEADLOCK FALSE
INVARIANTS
    TypeOK
    AcceptedOncePerFault
    DeadMeansExhausted
    WantedIsEnqueued
    MutedNotEnqueued

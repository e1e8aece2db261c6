\* One delivery whose POST fails, and nothing else going wrong.
CONSTANTS
    h1 = h1
    h2 = h2
    e1 = e1
    e2 = e2
    w1 = w1
    w2 = w2
    None = None
    Hooks = {h1}
    Events = {e1}
    Names = {"task.create", "task.move"}
    EventName <- MCEventName
    Filters <- MCFilters
    Workers = {w1, w2}
    BufferSize = 1
    MaxAttempts = 2
    MaxEdits = 1
    MaxFaults = 0
    MaxCrashes = 0
SPECIFICATION FairSpec
CHECK_DEADLOCK FALSE
PROPERTY
    FailedDeliveryIsRetried

\* A scheduled run that needs an approval.
CONSTANTS
    w1 = w1
    w2 = w2
    r1 = r1
    r2 = r2
    r3 = r3
    t1 = t1
    p1 = p1
    NoTask = NoTask
    NoProject = NoProject
    NoCall = NoCall
    NoRun = NoRun
    Workers = {w1, w2}
    Runs = {r1, r2}
    Loops <- MCLoops
    Calls <- MCScheduleCalls
    Actions = {"task.update", "task.move"}
    Policy <- MCPolicy
    MaxAttempts = 2
    MaxSteps = 1
    MaxCalls = 2
    MaxFaults = 0
    MaxCrashes = 0
SPECIFICATION Spec
INVARIANT
    RunWaitsForItsApproval

\* Liveness: no database error and no crash.
CONSTANTS
    w1 = w1
    w2 = w2
    r1 = r1
    r2 = r2
    r3 = r3
    t1 = t1
    p1 = p1
    NoTask = NoTask
    NoProject = NoProject
    NoCall = NoCall
    NoRun = NoRun
    Workers = {w1, w2}
    Runs = {r1, r2}
    Loops <- MCLoops
    Calls <- MCCalls
    Actions = {"task.update", "task.move"}
    Policy <- MCPolicy
    MaxAttempts = 2
    MaxSteps = 2
    MaxCalls = 1
    MaxFaults = 0
    MaxCrashes = 0
SPECIFICATION FairSpec
PROPERTY
    NewRunSettles

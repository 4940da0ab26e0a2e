SPECIFICATION LanesSpec
CONSTANTS
    j1 = j1
    w1 = w1
    w2 = w2
    p1 = p1
    q1 = q1
    q2 = q2
    c1 = c1
    t1 = t1
    n1 = n1
    r1 = r1
    r2 = r2
    d1 = d1
    d2 = d2
    NoJob = NoJob
    Jobs = {}
    Workers = {w1, w2}
    MaxAttempts = 1
    MaxFaults = 0
    Environments <- JobFaults
    Offboarders = {w1, w2}
    MaxSetbacks = 1
    MaxRequests = 1
    MaxEdits = 1
CHECK_DEADLOCK FALSE
INVARIANT CompletedBundleIsWhole

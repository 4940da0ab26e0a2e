SPECIFICATION LanesSpec
CONSTANTS
    j1 = j1
    w1 = w1
    w2 = w2
    p1 = p1
    q1 = q1
    q2 = q2
    c1 = c1
    t1 = t1
    n1 = n1
    r1 = r1
    r2 = r2
    d1 = d1
    d2 = d2
    NoJob = NoJob
    Jobs = {j1}
    Workers = {w1, w2}
    MaxAttempts = 3
    MaxFaults = 3
    Environments <- JobFaults
    Offboarders = {w1, w2}
    MaxSetbacks = 1
    MaxRequests = 2
    MaxEdits = 2
CHECK_DEADLOCK FALSE
INVARIANTS ExclusiveWork PurgedIsExported ClosedMeansGone
PROPERTIES JobSettles RequestSettles RevokedAccessEnds DeliverySettles RunSettles

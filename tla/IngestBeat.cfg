SPECIFICATION Spec
CONSTANTS
    j1 = j1
    w1 = w1
    w2 = w2
    NoJob = NoJob
    Jobs = {j1}
    Workers = {w1, w2}
    MaxAttempts = 2
    MaxFaults = 2
    Environments <- MissedRenewals
CHECK_DEADLOCK FALSE
INVARIANT MissedBeatsAreRecovered

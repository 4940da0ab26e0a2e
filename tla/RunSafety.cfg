SPECIFICATION Spec
CONSTANTS
    r1 = r1
    r2 = r2
    c1 = c1
    c2 = c2
    t1 = t1
    NoOne = NoOne
    Runs = {r1, r2}
    Streamed = {r1}
    Threads = {t1}
    Calls = {c1, c2}
    ThreadOf <- OneThread
    Environments <- TurnFaults
INVARIANTS OneUnfinishedPerThread PendingIsDecidable
PROPERTIES ResumesItsOwnPause KeepsTurns
CHECK_DEADLOCK FALSE

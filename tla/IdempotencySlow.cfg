SPECIFICATION Spec
CONSTANTS
    x1 = x1
    x2 = x2
    x3 = x3
    x4 = x4
    k1 = k1
    p1 = p1
    p2 = p2
    NoOne = NoOne
    Requests = {x1, x2, x3, x4}
    Keys = {k1}
    Prints = {p1, p2}
    KeyOf <- OneKey
    PrintOf <- OneOdd
    Environments <- SlowRequests
SYMMETRY SameRequests
CHECK_DEADLOCK FALSE
INVARIANT InFlightKeepsItsKey

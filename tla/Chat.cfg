SPECIFICATION Spec
CONSTANTS
    a1 = a1
    a2 = a2
    p1 = p1
    p2 = p2
    v1 = v1
    v2 = v2
    x1 = x1
    x2 = x2
    m1 = m1
    m2 = m2
    d1 = d1
    d2 = d2
    Web = Web
    NoOne = NoOne
    Approvals = {a1, a2}
    People = {p1}
    Views = {v1, v2}
    Digits = {x1, x2}
    Messages = {m1, m2}
    Deliveries = {d1, d2}
    MaxWrongTries = 2
    MaxEdits <- OneEdit
    RequestedBy <- AskedByOther
SYMMETRY Alike
CHECK_DEADLOCK FALSE
INVARIANT WrongTriesLock
PROPERTY KeepsCodes

SPECIFICATION RequestsSpec
CONSTANTS
    x1 = x1
    x2 = x2
    x3 = x3
    x4 = x4
    k1 = k1
    f1 = f1
    f2 = f2
    g1 = g1
    m1 = m1
    m2 = m2
    s1 = s1
    s2 = s2
    p1 = p1
    p2 = p2
    i1 = i1
    i2 = i2
    i3 = i3
    t1 = t1
    t2 = t2
    work = work
    Work = Work
    other = other
    makerChecker = makerChecker
    makerPayer = makerPayer
    NoOne = NoOne
    Requests = {x1, x2, x3, x4}
    Keys = {k1}
    Prints = {f1, f2}
    KeyOf <- OneKey
    PrintOf <- OneOdd
    Environments <- KeyFaults
    Grants = {g1}
    Members = {m1, m2}
    Staff = {s1, s2}
    ScopeSets = {{"read"}}
    FirstHolds <- OneGranter
    SupportGrant = "support.grant"
    SupportAsk = "support.request"
    MaxChanges = 2
    People = {p1, p2}
    Roles = {"maker", "org_admin"}
    Sets = {"extra"}
    OrgAdmin = "org_admin"
    Platform = {"platform"}
    Rules = {makerChecker, makerPayer}
    Waivable = {makerChecker}
    Left <- Making
    Right <- CheckingOrPaying
    Catalogue <- RoleScopes
    Revised <- LaterScopes
    Sessions = {t1, t2}
    Identities = {i1, i2, i3}
    Emails = {work, Work}
    Lower <- OneMailbox
    EmailOf <- OnePerson
    MaxUsers = 4
    Colleagues = {p1, p2, m1}
    Leaders = {}
    Admins = {s1, s2}
    NoManager = NoManager
    Persons = {p1, p2}
    Slugs = {work}
    Names = {other}
    Nothing = Nothing
SYMMETRY Alike
CHECK_DEADLOCK FALSE
INVARIANTS ActsOnce AccessUnderGrant ConflictsAreWaived
           SamePersonSameUser SightIsOneWay TrailTellsState
PROPERTIES KeepsPromise KeepsContract

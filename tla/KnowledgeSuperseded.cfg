SPECIFICATION MCSpec
CONSTANTS
    s1 = s1
    s2 = s2
    p1 = p1
    p2 = p2
    t1 = t1
    t2 = t2
    c1 = c1
    n1 = n1
    r1 = r1
    r2 = r2
    tool = tool
    loop1 = loop1
    loop2 = loop2
    None = None
    Nil = None
    NoTool = None
    NoSession = None
    People = {p1, p2}
    Chats = {c1}
    Tokens = {t1, t2}
    Notes = {n1}
    Lanes = {s1, s2}
    MaxAttempts = 2
    MaxLosses = 1
    MaxMoves = 1
    Versions = {p1, p2}
    Texts = {t1, t2}
    Passes = {s1, s2}
    Environments <- Overlaps
    MaxCrashes = 1
    MaxTurns = 3
    Tools = {"look", "note", "mail"}
    Effect <- Effects
    Idempotent = {"note"}
    Always = {}
    Levels = {"unset", "A2", "A4"}
    ToolSets = {{"look", "note", "mail"}, {"note"}}
    MaxCalls = 2
    MaxSteps = 2
    MaxRetries = 1
    Runs = {r1, r2}
    LoopOf <- TwoLoops
    ToolsOf <- OneTool
    RunsPerDay = 1
    SpendPerDay = 1
    Ceiling = 1
    MaxCost = 1
    Threshold = 2
    MaxAnswers = 6
    MaxFaults = 2
    Workers = {s1, s2}
    Settings <- SettingChoices
    Said = {t1}
    Batch = 2
    UpdateRetention = 0
    MessageRetention = 1
    OffersFor = 1
    MaxOffers = 2
    MaxDay = 3
    ReportIds = {1, 2, 3}
    Queries = {t1, t2}
    MaxImages = 1
    PageSizes = {1, 2}
    MaxClock = 2
    Superseded = 1
    IdleFor = 2
    BatchLimit = 2
    MaxPuts = 3
    MaxSaveClock = 3
    MonthsAhead = 1
    Terms = {1, 2, 100}
    Forever = 100
    MaxHalf = 6
    Sessions = {p1, p2}
    Commands = {t1, t2}
    Concurrency = 2
    Ttl = 1
    MaxFiles = 1
    MaxBoxClock = 2
    MaxMishaps = 1
    Budget = 4
    Frame = 1
    Sizes = {1, 2}
    SummarySizes = {1, 2}
    FoldCeiling = 4
    MaxResults = 2
    MaxSaid = 6
    MaxStrikes = 1
    Plans <- TwoPlans
    Handlers = {s1, s2}
    Limit = 1
    Pool = 2
    MaxOutages = 1
SYMMETRY Alike
CHECK_DEADLOCK FALSE
INVARIANT SupersededIsHidden
